---- MODULE Spec2Model ----
(***************************************************************************)
(* A model of the Presales RFP Compliance Engine of                        *)
(* src/services/presales.py: extract_column_values (Response Parser and    *)
(* Remark Composer), call_openai (Compliance Judge), exa_search (Web       *)
(* Evidence Retriever and Evidence Cache), process_row_async (Row          *)
(* Processor) and process_all_rows (Batch Orchestrator).                   *)
(*                                                                         *)
(* Text.  A Python str is a sequence of tokens.  A token is a maximal run  *)
(* of characters holding neither whitespace nor a colon; the colon is a    *)
(* token of its own and "\n" is the newline token.  A fixed sentence of    *)
(* the source that the code never takes apart is one token.  A text that   *)
(* was split into lines (str.splitlines) is a sequence of lines, each a    *)
(* sequence of tokens without the newline token.                           *)
(***************************************************************************)
EXTENDS Integers, Sequences, FiniteSets, TLC

NL == "\n"
COLON == ":"
BLANK == " "

Range(s) == {s[i] : i \in DOMAIN s}

InSeq(x, s) == \E i \in DOMAIN s : s[i] = x

(* None of Python, for a column name. *)
None == <<>>

(***************************************************************************)
(* Character-level facts about the tokens of the model.                    *)
(***************************************************************************)

(* Tokens holding a character outside [A-Za-z_'] (digits, bullets, URL     *)
(* tails, punctuation): the label pattern of line 410 cannot run over them.*)
NonLabelToks ==
    {COLON, NL, "3", "5", "-", "//docs.oracle.com/a", "//github.com/b",
     "Processing error:", "..."}

IsLabelTok(t) == t \notin NonLabelToks

(* str.upper on a token. *)
Upper(t) ==
    CASE t = "Response" -> "RESPONSE"
      [] t = "response" -> "RESPONSE"
      [] t = "Remark" -> "REMARK"
      [] t = "remark" -> "REMARK"
      [] t = "Explanation" -> "EXPLANATION"
      [] t = "explanation" -> "EXPLANATION"
      [] t = "Compliance" -> "COMPLIANCE"
      [] t = "Notes" -> "NOTES"
      [] t = "Reference" -> "REFERENCE"
      [] t = "Sources" -> "SOURCES"
      [] t = "Consulted" -> "CONSULTED"
      [] t = "https" -> "HTTPS"
      [] t = "Score" -> "SCORE"
      [] t = "Tenderer's" -> "TENDERER'S"
      [] OTHER -> t

(* str.lower on a token. *)
Lower(t) ==
    CASE t = "Yes" -> "yes"
      [] t = "YES" -> "yes"
      [] t = "No" -> "no"
      [] t = "NO" -> "no"
      [] t = "Partially" -> "partially"
      [] t = "PARTIALLY" -> "partially"
      [] t = "Not" -> "not"
      [] t = "NOT" -> "not"
      [] t = "Found" -> "found"
      [] t = "FOUND" -> "found"
      [] t = "Maybe" -> "maybe"
      [] OTHER -> t

UpperSeq(s) == [i \in DOMAIN s |-> Upper(s[i])]

LowerSeq(s) == [i \in DOMAIN s |-> Lower(s[i])]

(* key in token (substring of one word). *)
Contains(t, key) ==
    \/ t = key
    \/ <<t, key>> \in {<<"RESPONSES", "RESPONSE">>, <<"REMARKS", "REMARK">>,
                       <<"COMMENTS", "COMMENT">>}

(* any(key in name for key in keys): the keys hold no blank, so a key lies *)
(* inside one token of the name.                                           *)
AnyKeyIn(keys, name) ==
    \E k \in keys : \E i \in DOMAIN name : Contains(name[i], k)

ResponseKeys == {"RESPONSE", "ANSWER", "COMPLIANCE"}

RemarkKeys == {"REMARK", "COMMENT", "NOTES"}

(* str.strip on a value: leading and trailing whitespace goes, line ends   *)
(* and blanks alike.                                                       *)
Whitespace == {NL, BLANK}

RECURSIVE LStrip(_)
LStrip(v) ==
    CHOOSE y \in {IF x # <<>> /\ Head(x) \in Whitespace
                  THEN LStrip(Tail(x)) ELSE x : x \in {v}} : TRUE

RECURSIVE RStrip(_)
RStrip(v) ==
    CHOOSE y \in {IF x # <<>> /\ x[Len(x)] \in Whitespace
                  THEN RStrip(SubSeq(x, 1, Len(x) - 1)) ELSE x : x \in {v}} :
        TRUE

Strip(v) == RStrip(LStrip(v))

(* "\n".join(buffer) *)
RECURSIVE JoinNL(_)
JoinNL(buf) ==
    CHOOSE y \in {IF b = <<>> THEN <<>>
                  ELSE IF Len(b) = 1 THEN b[1]
                  ELSE b[1] \o <<NL>> \o JoinNL(Tail(b)) : b \in {buf}} : TRUE

(***************************************************************************)
(* The fixed texts of extract_column_values and process_row_async.         *)
(***************************************************************************)
NotFoundValue == <<"Not", "found">>

GenericUnknown ==
    <<"Based on comprehensive analysis of available Oracle documentation and industry resources, specific information regarding this requirement could not be definitively established.">>

GenericYes ==
    <<"Oracle FLEXCUBE provides the required functionality as part of its core banking capabilities.">>

GenericPartially ==
    <<"Oracle FLEXCUBE provides partial support for this requirement with some limitations or additional configuration needed.">>

GenericNo ==
    <<"Based on available Oracle FLEXCUBE documentation and capabilities analysis, this specific requirement is not supported by the current platform architecture.">>

GenericNotFound ==
    <<"Comprehensive analysis of available Oracle documentation and industry resources could not identify specific information regarding this requirement. Further clarification with Oracle technical teams may be required.">>

(***************************************************************************)
(* extract_column_values, lines 378-436: the parser over the lines.        *)
(***************************************************************************)

(* column_mapping.get(raw_col, raw_col), lines 380-392 and 416. *)
column_mapping(raw_col) ==
    CASE raw_col = <<"RESPONSE">> -> <<"TENDERER'S", "RESPONSE">>
      [] raw_col = <<"REMARK">> -> <<"TENDERER'S", "REMARK">>
      [] raw_col = <<"COMPLIANCE">> -> <<"TENDERER'S", "RESPONSE">>
      [] raw_col = <<"COMMENT">> -> <<"TENDERER'S", "REMARK">>
      [] raw_col = <<"VENDOR", "COMMENTS">> -> <<"VENDOR", "REMARKS">>
      [] OTHER -> raw_col

(* Position of the first colon of a line, 0 when it has none. *)
FirstColon(line) ==
    IF \E i \in DOMAIN line : line[i] = COLON
    THEN CHOOSE i \in DOMAIN line :
            line[i] = COLON /\ \A j \in 1..(i - 1) : line[j] # COLON
    ELSE 0

(* A variant of line 406 that compares without upper-casing. *)
IsUpperCaseExplanationLine(line) ==
    Len(line) >= 2 /\ line[1] = "EXPLANATION" /\ line[2] = COLON

(* line.upper().startswith("EXPLANATION:"), line 406. *)
IsExplanationLine(line) ==
    Len(line) >= 2 /\ Upper(line[1]) = "EXPLANATION" /\ line[2] = COLON

(* The re.match of line 410: a label of letters, underscores, apostrophes  *)
(* and blanks, then a colon, then the value.  The text before the first    *)
(* colon is not empty and holds label characters only.                     *)
IsLabelLine(line) ==
    LET p == FirstColon(line)
    IN  p >= 2 /\ \A i \in 1..(p - 1) : IsLabelTok(line[i])

(* match.group(1).strip().upper() *)
RawCol(line) == UpperSeq(SubSeq(line, 1, FirstColon(line) - 1))

(* match.group(2).strip() *)
LabelValue(line) == SubSeq(line, FirstColon(line) + 1, Len(line))

(* The loop of lines 419-425: the first output column of the same keyword  *)
(* cluster as the raw label, None when there is none.                      *)
FuzzyMatches(raw_col, output_col) ==
    \/ AnyKeyIn(ResponseKeys, raw_col) /\ AnyKeyIn(ResponseKeys, output_col)
    \/ AnyKeyIn(RemarkKeys, raw_col) /\ AnyKeyIn(RemarkKeys, output_col)

FuzzyColumn(raw_col, output_cols) ==
    IF \E i \in DOMAIN output_cols : FuzzyMatches(raw_col, output_cols[i])
    THEN output_cols[CHOOSE i \in DOMAIN output_cols :
            /\ FuzzyMatches(raw_col, output_cols[i])
            /\ \A j \in 1..(i - 1) : ~FuzzyMatches(raw_col, output_cols[j])]
    ELSE None

(* Lines 415-428: the output column of a label, None when unmappable. *)
MapLabel(raw_col, output_cols) ==
    IF InSeq(column_mapping(raw_col), output_cols)
    THEN column_mapping(raw_col)
    ELSE FuzzyColumn(raw_col, output_cols)

(* A variant of the flush that stores the label line's value only. *)
FlushLabelValue(st) ==
    IF st.current_col # None /\ st.current_col \in DOMAIN st.results
    THEN [st.results EXCEPT ![st.current_col] = Strip(Head(st.buffer))]
    ELSE st.results

(* Lines 412-413 and 435-436: the open buffer goes to its column. *)
Flush(st) ==
    IF st.current_col # None /\ st.current_col \in DOMAIN st.results
    THEN [st.results EXCEPT ![st.current_col] = Strip(JoinNL(st.buffer))]
    ELSE st.results

(* Lines 394-397. *)
ParserInit(output_cols) ==
    [results |-> [c \in Range(output_cols) |-> <<>>],
     current_col |-> None,
     buffer |-> <<>>,
     explanation |-> <<>>]

(* A variant of the loop that leaves the section open at a label no       *)
(* column maps.                                                            *)
ParseLineKeepingSection(st, line, output_cols) ==
    IF line = <<>> THEN st
    ELSE IF IsExplanationLine(line)
    THEN [st EXCEPT !.explanation = SubSeq(line, 3, Len(line))]
    ELSE IF IsLabelLine(line)
    THEN LET col == MapLabel(RawCol(line), output_cols)
         IN  IF col = None
             THEN [st EXCEPT !.results = Flush(st)]
             ELSE [st EXCEPT !.results = Flush(st), !.current_col = col,
                             !.buffer = <<LabelValue(line)>>]
    ELSE IF st.current_col # None
    THEN [st EXCEPT !.buffer = Append(st.buffer, line)]
    ELSE st

(* One turn of the loop of lines 401-433. *)
ParseLine(st, line, output_cols) ==
    IF line = <<>> THEN st
    ELSE IF IsExplanationLine(line)
    THEN [st EXCEPT !.explanation = SubSeq(line, 3, Len(line))]
    ELSE IF IsLabelLine(line)
    THEN LET col == MapLabel(RawCol(line), output_cols)
         IN  IF col = None
             THEN [st EXCEPT !.results = Flush(st), !.current_col = None]
             ELSE [st EXCEPT !.results = Flush(st), !.current_col = col,
                             !.buffer = <<LabelValue(line)>>]
    ELSE IF st.current_col # None
    THEN [st EXCEPT !.buffer = Append(st.buffer, line)]
    ELSE st

RECURSIVE ParseLines(_, _, _)
ParseLines(st, lines, output_cols) ==
    CHOOSE y \in {IF l = <<>> THEN s
                  ELSE ParseLines(ParseLine(s, Head(l), output_cols), Tail(l),
                                  output_cols) : s \in {st}, l \in {lines}} :
        TRUE

(***************************************************************************)
(* extract_column_values, lines 438-444: fallback fill.                    *)
(***************************************************************************)
FillValue(col, val) ==
    IF Strip(val) # <<>> THEN val
    ELSE IF AnyKeyIn(ResponseKeys, UpperSeq(col)) THEN NotFoundValue
    ELSE IF AnyKeyIn(RemarkKeys, UpperSeq(col)) THEN GenericUnknown
    ELSE val

FillEmpty(results) == [c \in DOMAIN results |-> FillValue(c, results[c])]

(***************************************************************************)
(* extract_column_values, lines 446-490: the Remark Composer.              *)
(***************************************************************************)
IsResponseCol(col) == AnyKeyIn(ResponseKeys, UpperSeq(col))

IsRemarkCol(col) == ~IsResponseCol(col) /\ AnyKeyIn(RemarkKeys, UpperSeq(col))

(* The loop of lines 450-454 keeps the last column of each kind. *)
response_col(output_cols) ==
    IF \E i \in DOMAIN output_cols : IsResponseCol(output_cols[i])
    THEN output_cols[CHOOSE i \in DOMAIN output_cols :
            /\ IsResponseCol(output_cols[i])
            /\ \A j \in (i + 1)..Len(output_cols) :
                  ~IsResponseCol(output_cols[j])]
    ELSE None

remark_col(output_cols) ==
    IF \E i \in DOMAIN output_cols : IsRemarkCol(output_cols[i])
    THEN output_cols[CHOOSE i \in DOMAIN output_cols :
            /\ IsRemarkCol(output_cols[i])
            /\ \A j \in (i + 1)..Len(output_cols) :
                  ~IsRemarkCol(output_cols[j])]
    ELSE None

(* results[response_col].strip().lower(), line 458 *)
response_value(results, output_cols) ==
    LowerSeq(Strip(results[response_col(output_cols)]))

(* The fixed statement of each branch of lines 460-486. *)
GenericFor(rv) ==
    CASE rv = <<"yes">> -> GenericYes
      [] rv = <<"partially">> -> GenericPartially
      [] rv = <<"no">> -> GenericNo
      [] rv = <<"not", "found">> -> GenericNotFound

FourValues == {<<"yes">>, <<"partially">>, <<"no">>, <<"not", "found">>}

(* A variant that appends the evidence's sources to a positive remark. *)
ComposeRemarkCitingPositive(rv, explanation, search_info) ==
    IF rv \in {<<"yes">>, <<"partially">>}
    THEN (IF explanation # <<>> THEN explanation ELSE GenericFor(rv))
            \o <<NL, "Reference", "Sources", "Consulted", COLON>>
            \o search_info.sources
    ELSE IF explanation # <<>> THEN explanation ELSE GenericFor(rv)

(* A variant that keeps the first statement whatever the response. *)
ComposeRemarkOneStatement(rv, explanation, search_info) ==
    IF explanation # <<>> THEN explanation ELSE GenericYes

(* The remark of one branch of lines 460-486: the explanation, else the    *)
(* branch's fixed statement; search_info is not read.                      *)
ComposeRemark(rv, explanation, search_info) ==
    IF explanation # <<>> THEN explanation ELSE GenericFor(rv)

(* Lines 456-490. *)
ApplyFormatting(results, output_cols, explanation, search_info) ==
    LET rc == response_col(output_cols)
        mc == remark_col(output_cols)
    IN  IF rc # None /\ mc # None /\ results[rc] # <<>>
        THEN LET rv == response_value(results, output_cols)
             IN  IF rv \in FourValues
                 THEN [results EXCEPT
                         ![mc] = ComposeRemark(rv, explanation, search_info)]
                 ELSE results
        ELSE IF mc # None /\ explanation # <<>>
             THEN [results EXCEPT ![mc] = explanation]
             ELSE results

(* extract_column_values(text, output_cols, search_info), lines 378-492,   *)
(* text given as its lines.                                                *)
extract_column_values(lines, output_cols, search_info) ==
    CHOOSE y \in UNION
        {{ApplyFormatting(filled, output_cols, st.explanation, search_info) :
             filled \in {FillEmpty(Flush(st))}} :
            st \in {ParseLines(ParserInit(output_cols), lines, output_cols)}} :
        TRUE

(***************************************************************************)
(* The state.                                                              *)
(*   text, out_cols, info, pst, pos, stage: one call of                    *)
(*     extract_column_values taken line by line (its arguments, the        *)
(*     parser's locals, the number of lines read, the part of the function *)
(*     it is in).                                                          *)
(*   wb, rq, df, task: the process_excel requests: each request's workbook *)
(*     rows, its place in process_all_rows, its data frame's output cells, *)
(*     and its row tasks (process_row_async coroutines).                   *)
(*   search_cache, sem_value, sem_waiters: the module's globals of lines   *)
(*     89-90 (the semaphore's counter and its queue of waiters).           *)
(*   env: what the outside world may still do in this run: the replies the *)
(*     LLM and the search tool may give and how many more calls may fail.  *)
(*   hist: for each request and row, how many row tasks were created for   *)
(*     the row (line 880) and the indices of the tasks whose results were  *)
(*     written into it (line 895): a history, read by no action.           *)
(*   temp_files, processed_files: the two stores of PresalesAgentService   *)
(*     (lines 496-497), each a function from identifiers to bytes.         *)
(*   up, dl: what the last upload_file and the last get_processed_file     *)
(*     gave back to their callers.                                         *)
(*   call: the exa_search calls made directly, one for each caller.        *)
(***************************************************************************)
VARIABLES text, out_cols, info, pst, pos, stage,
          wb, rq, df, task, search_cache, sem_value, sem_waiters, env,
          hist, temp_files, processed_files, up, dl, call

parse_vars == <<text, out_cols, info, pst, pos, stage>>

run_vars ==
    <<wb, rq, df, task, search_cache, sem_value, sem_waiters, env, hist>>

store_vars == <<temp_files, processed_files>>

svc_vars == <<store_vars, up, dl, call>>

vars == <<parse_vars, run_vars, svc_vars>>

(***************************************************************************)
(* Bounds and program constants.                                           *)
(***************************************************************************)

(* Lines of an LLM reply given to the parser. *)
MaxLines == 3

(* Line 67. *)
MAX_RETRIES == 3

(* Line 64 sets 10 permits and line 65 batches of 5; the model runs the    *)
(* same code with fewer permits and smaller batches.                       *)
MAX_CONCURRENT_REQUESTS == 2

BATCH_SIZE == 2

(* Line 68 sets 1000 entries; the model runs with a smaller cache. *)
CACHE_SIZE == 2

(* Rows of the first request's workbook. *)
MaxRows == 3

(* Failures the LLM and the search tool may inject while batches run. *)
BatchFaults == 1

(* Line 702. *)
MinWords == 5

(* Lines 710 and 714. *)
WordsPerCell == 150

QueryTerms == 100

(***************************************************************************)
(* One call of extract_column_values, line by line.                        *)
(***************************************************************************)

(* Lines an LLM reply is made of: label lines of the response and remark   *)
(* columns in several spellings, a continuation line holding a link, the   *)
(* EXPLANATION line (filled, empty, holding a citation), the heading of a  *)
(* citation block (a label no column maps), a remark label whose value     *)
(* starts on the next line, and the blank line.                            *)
ReplyLines ==
    {<<>>,
     <<"RESPONSE", COLON, "Yes">>,
     <<"Response", COLON, "NO">>,
     <<"Compliance", COLON, "Partially">>,
     <<"RESPONSE", COLON, "Maybe">>,
     <<"REMARK", COLON, "supported">>,
     <<"Remark", COLON>>,
     <<"-", "https", COLON, "//docs.oracle.com/a">>,
     <<"EXPLANATION", COLON, "because">>,
     <<"Explanation", COLON>>,
     <<"EXPLANATION", COLON, "Reference", "Sources", "Consulted", COLON,
       "https", COLON, "//docs.oracle.com/a">>,
     <<"Reference", "Sources", "Consulted", COLON>>}

Texts == UNION {[1..n -> ReplyLines] : n \in 0..MaxLines}

(* output_cols of a request, upper-cased as line 534 leaves them. *)
ColumnConfigs ==
    {<<<<"RESPONSE">>, <<"REMARK">>>>,
     <<<<"TENDERER'S", "RESPONSE">>, <<"TENDERER'S", "REMARK">>, <<"NOTES">>>>,
     <<<<"REMARK">>, <<"SCORE">>>>}

(* search_info of lines 817-823: an evidence result without sources and   *)
(* one with two official sources.                                          *)
NoEvidence ==
    [sources |-> <<>>, evidence_strength |-> "None",
     oracle_sources |-> 0, community_sources |-> 0]

HighEvidence ==
    [sources |-> <<"//docs.oracle.com/a", "//docs.oracle.com/b">>,
     evidence_strength |-> "High",
     oracle_sources |-> 2, community_sources |-> 0]

SearchInfos == {NoEvidence, HighEvidence}

(* Lines 401-433: the next line of the text is read. *)
ReadLine ==
    /\ stage = "scan"
    /\ pos < Len(text)
    /\ pst' = ParseLine(pst, text[pos + 1], out_cols)
    /\ pos' = pos + 1
    /\ UNCHANGED <<text, out_cols, info, stage>>
    /\ UNCHANGED run_vars
    /\ UNCHANGED svc_vars

(* Lines 435-436: the end of the text flushes the open buffer. *)
EndOfText ==
    /\ stage = "scan"
    /\ pos = Len(text)
    /\ pst' = [pst EXCEPT !.results = Flush(pst)]
    /\ stage' = "fill"
    /\ UNCHANGED <<text, out_cols, info, pos>>
    /\ UNCHANGED run_vars
    /\ UNCHANGED svc_vars

(* Lines 438-444. *)
FillEmptyColumns ==
    /\ stage = "fill"
    /\ pst' = [pst EXCEPT !.results = FillEmpty(pst.results)]
    /\ stage' = "format"
    /\ UNCHANGED <<text, out_cols, info, pos>>
    /\ UNCHANGED run_vars
    /\ UNCHANGED svc_vars

(* Lines 446-492. *)
FormatRemark ==
    /\ stage = "format"
    /\ pst' = [pst EXCEPT !.results =
                  ApplyFormatting(pst.results, out_cols, pst.explanation, info)]
    /\ stage' = "done"
    /\ UNCHANGED <<text, out_cols, info, pos>>
    /\ UNCHANGED run_vars
    /\ UNCHANGED svc_vars

NextParse == ReadLine \/ EndOfText \/ FillEmptyColumns \/ FormatRemark

(***************************************************************************)
(* process_row_async, lines 686-714: a row, its input text and its query.  *)
(* A cell of an input column is a text (its words), NaN, or, when two      *)
(* columns of the workbook share the normalized name of line 532, the      *)
(* Series of both cells.                                                   *)
(***************************************************************************)
TextCell(ws) == [kind |-> "text", words |-> ws]

NaNCell == [kind |-> "nan", words |-> <<>>]

SeriesCell == [kind |-> "series", words |-> <<>>]

(* Line 694: the workbook has no column of the name the request gives. *)
AbsentCell == [kind |-> "absent", words |-> <<>>]

(* len(w) of the words of the model's rows. *)
WordLen(w) ==
    CASE w \in {"of"} -> 2
      [] w \in {"real", "Real", "time", "Time"} -> 4
      [] w \in {"multi"} -> 5
      [] w \in {"ledger", "LEDGER", "engine"} -> 6
      [] OTHER -> 7

(* str.lower on the words of a query. *)
LowerWord(w) ==
    CASE w \in {"Real", "REAL"} -> "real"
      [] w \in {"Time", "TIME"} -> "time"
      [] w = "LEDGER" -> "ledger"
      [] OTHER -> w

Take(s, n) == SubSeq(s, 1, IF Len(s) < n THEN Len(s) ELSE n)

RECURSIVE Concat(_)
Concat(ss) == IF ss = <<>> THEN <<>> ELSE Head(ss) \o Concat(Tail(ss))

(* Line 694: pd.notna of a Series is a Series, whose truth value raises. *)
ExtractionRaises(row) == \E i \in DOMAIN row : row[i].kind = "series"

(* Lines 692-697: the values of the non-empty cells, in column order. *)
input_data(row) ==
    LET filled == SelectSeq(row, LAMBDA c : c.kind = "text" /\ c.words # <<>>)
    IN  [i \in DOMAIN filled |-> filled[i].words]

(* Lines 699-700. *)
input_text(row) == Concat(input_data(row))

word_count(row) == Len(input_text(row))

(* Lines 707-711. *)
key_terms(row) ==
    LET vals == input_data(row)
    IN  Concat([i \in DOMAIN vals |->
            Take(SelectSeq(vals[i], LAMBDA w : WordLen(w) > 3), WordsPerCell)])

(* Line 714. *)
search_query(row) == <<"oracle", "flexcube">> \o Take(key_terms(row), QueryTerms)

(* A variant of line 94 that does not lower-case the query. *)
KeyOfStripped(query) == Strip(query)

(* Lines 92-94: the digest of the lower-cased, stripped query; the digest  *)
(* is taken to be one-to-one.                                              *)
get_cache_key(query) ==
    CHOOSE y \in {Strip([i \in DOMAIN q |-> LowerWord(q[i])]) : q \in {query}} :
        TRUE

(***************************************************************************)
(* exa_search, lines 141-185 and 253-350: the results it builds.           *)
(***************************************************************************)
(* Line 256: the URL, lower-cased, holds oracle.com. *)
IsOracleUrl(u) ==
    u \in {"//docs.oracle.com/a", "//docs.oracle.com/b", "//DOCS.ORACLE.COM/c"}

(* Lines 256-257. *)
oracle_sources(urls) ==
    Cardinality({i \in DOMAIN urls : IsOracleUrl(urls[i])})

community_sources(urls) ==
    Cardinality({i \in DOMAIN urls : ~IsOracleUrl(urls[i])})

(* A variant of line 261 that asks for three oracle.com URLs. *)
StrengthFromThree(urls) ==
    IF oracle_sources(urls) >= 3 THEN "High"
    ELSE IF oracle_sources(urls) >= 1 \/ community_sources(urls) >= 3
    THEN "Moderate"
    ELSE IF urls # <<>> THEN "Limited"
    ELSE "None"

(* A variant of line 263 that is content with two community URLs. *)
StrengthCommunityTwo(urls) ==
    IF oracle_sources(urls) >= 2 THEN "High"
    ELSE IF oracle_sources(urls) >= 1 \/ community_sources(urls) >= 2
    THEN "Moderate"
    ELSE IF urls # <<>> THEN "Limited"
    ELSE "None"

(* Lines 260-266. *)
evidence_strength(urls) ==
    IF oracle_sources(urls) >= 2 THEN "High"
    ELSE IF oracle_sources(urls) >= 1 \/ community_sources(urls) >= 3
    THEN "Moderate"
    ELSE IF urls # <<>> THEN "Limited"
    ELSE "None"

(* Lines 318-325. *)
FoundResult(urls) ==
    [content |-> "results", sources |-> urls,
     evidence_strength |-> evidence_strength(urls),
     oracle_sources |-> oracle_sources(urls),
     community_sources |-> community_sources(urls)]

(* Lines 142-149, 156-163 and 176-183. *)
DegradedResult(content) ==
    [content |-> content, sources |-> <<>>, evidence_strength |-> "None",
     oracle_sources |-> 0, community_sources |-> 0]

(* Lines 341-348. *)
ErrorResult ==
    [content |-> "Web search failed", sources |-> <<>>,
     evidence_strength |-> "Error",
     oracle_sources |-> 0, community_sources |-> 0]

(* The value of search_results before the search has returned. *)
NoResult ==
    [content |-> "", sources |-> <<>>, evidence_strength |-> "",
     oracle_sources |-> 0, community_sources |-> 0]

(* Lines 817-823. *)
search_info(res) ==
    [sources |-> res.sources, evidence_strength |-> res.evidence_strength,
     oracle_sources |-> res.oracle_sources,
     community_sources |-> res.community_sources]

(***************************************************************************)
(* The requests of the model and what a row task holds.                    *)
(***************************************************************************)
Requests == {1, 2}

(* request.output_columns after line 534. *)
OutputCols == <<<<"RESPONSE">>, <<"REMARK">>>>

AllColumns(v) == [c \in Range(OutputCols) |-> v]

(* A variant of line 702 that lets a row of four words through. *)
TooShortByOne(row) == word_count(row) < MinWords - 1

(* Line 702. *)
TooShort(row) == word_count(row) < MinWords

(* Line 704. *)
InsufficientValue == <<"Insufficient content for analysis">>

(* Line 853. *)
ProcessingError(msg) == <<"Processing error:", msg, "...">>

(* What ai_response may be: the text of a completion, or None when the     *)
(* completion carries no content.                                          *)
TextReply(lines) == [kind |-> "text", lines |-> lines]

NoneReply == [kind |-> "none", lines |-> <<>>]

(* Line 373: the text call_openai returns once the retries are used up. *)
ExhaustedReply ==
    TextReply(<<<<"OpenAI", "API", "call", "failed", "after", "3", "retries",
                  COLON, "Connection", "error.">>>>)

(* A row task: where it stands, the locals retry_count and search_results,  *)
(* the seconds of the backoff it sleeps, the dictionary it returns, and    *)
(* whether call_openai gave up on it.                                      *)
AbsentTask ==
    [pc |-> "none", retry_count |-> 0, delay |-> 0, search |-> NoResult,
     outputs |-> AllColumns(<<>>), gave_up |-> FALSE]

NewTask == [AbsentTask EXCEPT !.pc = "new"]

(* Lines 842 and 851-854: the task is done and only its result is left. *)
Returned(t, outs) ==
    [AbsentTask EXCEPT !.pc = "returned", !.outputs = outs,
                       !.gave_up = t.gave_up]

(* Lines 844-854: the handler reads input_text (line 850) before it builds *)
(* the error result; when line 699 was not reached the name is unbound and *)
(* the handler itself raises.                                              *)
RowHandler(t, input_text_bound, msg) ==
    IF input_text_bound
    THEN Returned(t, AllColumns(ProcessingError(msg)))
    ELSE [AbsentTask EXCEPT !.pc = "raised"]

(* Lines 809-842: the reply is parsed; None has no splitlines. *)
AfterCompletion(t, ai_response) ==
    IF ai_response.kind = "none"
    THEN RowHandler(t, TRUE, "'NoneType' object has no attribute 'splitlines'")
    ELSE Returned(t, extract_column_values(ai_response.lines, OutputCols,
                                           search_info(t.search)))

(* Lines 875-876. *)
batch_end(batch_start, total_rows) ==
    IF batch_start + BATCH_SIZE < total_rows
    THEN batch_start + BATCH_SIZE ELSE total_rows

batch_rows(batch_start, total_rows) ==
    batch_start..(batch_end(batch_start, total_rows) - 1)

total_rows(r) == Len(wb[r])

Finished(t) == t.pc \in {"returned", "raised"}

(* A variant of line 884 that goes on as soon as one task is done. *)
GatherAny(r) ==
    \E i \in batch_rows(rq[r].batch_start, total_rows(r)) : Finished(task[r][i])

(* Line 884: asyncio.gather returns when every task of the batch is done. *)
GatherDone(r) ==
    \A i \in batch_rows(rq[r].batch_start, total_rows(r)) : Finished(task[r][i])

(* A variant of lines 889-891 that skips no gathered result. *)
EveryOutcome(t) == TRUE

(* Lines 889-891: a gathered result that is an exception is skipped. *)
IsRowResult(t) == t.pc = "returned"

(* A variant of line 895 that writes by position in the batch. *)
WriteRowByPosition(idx, batch_start) == idx - batch_start

(* Lines 893-895: the row written is the index the task returned. *)
WriteRow(idx, batch_start) == idx

(* A variant of line 132 that keeps the permit when the tool session      *)
(* raised.                                                                 *)
ReleaseUnlessRaised(value, o) ==
    IF o.kind = "exception" THEN value ELSE value + 1

(* Line 132: leaving the `async with semaphore` block releases the permit, *)
(* by a return (lines 151, 165, 185, 330) or by an exception on its way to *)
(* the handler of line 332.                                                *)
Release(value, o) == value + 1

(* A variant of line 132 that lets every search in. *)
PermitAlwaysFree(value) == TRUE

(* Line 132: asyncio.Semaphore.acquire goes on at once when the counter is *)
(* positive.                                                               *)
PermitFree(value) == value > 0

Rows(r) == 0..(total_rows(r) - 1)

TaskIds == UNION {{<<r, i>> : i \in Rows(r)} : r \in Requests}

(* Tasks inside the guarded section of lines 132-350. *)
InSearch ==
    {p \in TaskIds : task[p[1]][p[2]].pc \in {"rate_delay", "tool_call"}}

(* Tasks created and not yet done. *)
Active(t) ==
    t.pc \in {"new", "sem_wait", "rate_delay", "tool_call", "llm", "backoff"}

RECURSIVE Ascending(_)
Ascending(S) ==
    IF S = {} THEN <<>>
    ELSE LET m == CHOOSE x \in S : \A y \in S : x <= y
         IN  <<m>> \o Ascending(S \ {m})

(***************************************************************************)
(* The stores of PresalesAgentService, lines 495-520 and 962-1000.         *)
(***************************************************************************)

(* dict[key] = v. *)
Put(cache, key, v) ==
    [k \in DOMAIN cache \cup {key} |-> IF k = key THEN v ELSE cache[k]]

(* Line 511: the identifier of an upload is made of the second it came in  *)
(* and of its file name.                                                   *)
temp_filename(timestamp, filename) == <<"temp", timestamp, filename>>

(* The bytes of an upload: whether they are within 100 MB (line 501),      *)
(* whether openpyxl reads them (line 507), and the rows read.              *)
Workbook(rows) == [small |-> TRUE, readable |-> TRUE, rows |-> rows]

(* Line 987: uuid4 gives an identifier that no result has. *)
file_id(store) == <<"result", Cardinality(DOMAIN store) + 1>>

(* A variant of lines 999-1000 that keeps the upload. *)
KeepUpload(temp, filename) == temp

(* Lines 999-1000: the upload is deleted when it is still there. *)
DropUpload(temp, filename) ==
    [k \in DOMAIN temp \ {filename} |-> temp[k]]

(* What upload_file and get_processed_file gave back last: nothing yet. *)
NoUpload == [kind |-> "none", filename |-> <<>>, row_count |-> 0, text |-> ""]

NoDownload == [kind |-> "none", file_id |-> <<>>, bytes |-> <<>>, text |-> ""]

(* Line 503: filename.lower() ends in .xlsx or .xls. *)
HasExcelSuffix(filename) == filename \in {"rfp.xlsx", "RFP.XLS"}

(* Lines 499-520: the upload is refused when it is too large, has another  *)
(* suffix or is not read by openpyxl; otherwise its bytes are stored under *)
(* the identifier made at lines 510-511.                                   *)
Upload(file_content, filename, timestamp) ==
    /\ IF ~file_content.small
       THEN /\ up' = [NoUpload EXCEPT !.kind = "error",
                         !.text = "Upload error: File exceeds 100MB limit"]
            /\ UNCHANGED temp_files
       ELSE IF ~HasExcelSuffix(filename)
       THEN /\ up' = [NoUpload EXCEPT !.kind = "error",
                         !.text = "Upload error: Only .xlsx and .xls files are supported"]
            /\ UNCHANGED temp_files
       ELSE IF ~file_content.readable
       THEN /\ up' = [NoUpload EXCEPT !.kind = "error",
                         !.text = "Upload error: File is not a zip file"]
            /\ UNCHANGED temp_files
       ELSE /\ temp_files' =
                  Put(temp_files, temp_filename(timestamp, filename),
                      file_content)
            /\ up' = [NoUpload EXCEPT
                         !.kind = "stored",
                         !.filename = temp_filename(timestamp, filename),
                         !.row_count = Len(file_content.rows)]
    /\ UNCHANGED <<processed_files, dl, call>>
    /\ UNCHANGED run_vars
    /\ UNCHANGED parse_vars

(* A variant of line 1025 that finds no identifier. *)
NeverStored(store, id) == FALSE

(* Line 1025. *)
IsStored(store, id) == id \in DOMAIN store

(* Lines 1023-1027: the bytes stored under the identifier, or an error. *)
Download(id) ==
    /\ dl' = IF IsStored(processed_files, id)
             THEN [NoDownload EXCEPT !.kind = "bytes", !.file_id = id,
                                     !.bytes = processed_files[id]]
             ELSE [NoDownload EXCEPT !.kind = "error", !.file_id = id,
                                     !.text = "File not found or expired"]
    /\ UNCHANGED <<store_vars, up, call>>
    /\ UNCHANGED run_vars
    /\ UNCHANGED parse_vars

(***************************************************************************)
(* process_all_rows, lines 874-920.                                        *)
(***************************************************************************)

(* Lines 878-881: one coroutine for each index of the batch. *)
Launch(r, batch_start, tasks, hists) ==
    LET batch == batch_rows(batch_start, Cardinality(DOMAIN tasks))
    IN  /\ task' = [task EXCEPT ![r] =
                [i \in DOMAIN tasks |->
                    IF i \in batch THEN NewTask ELSE tasks[i]]]
        /\ hist' = [hist EXCEPT ![r] =
                [i \in DOMAIN hists |->
                    IF i \in batch
                    THEN [hists[i] EXCEPT !.launched = @ + 1]
                    ELSE hists[i]]]

(* Lines 522-539 and 856-884, 929: an upload that is not in temp_files is  *)
(* refused; otherwise the workbook is read, the output columns are added   *)
(* empty and the first batch is gathered. A workbook without rows runs no  *)
(* batch and divides by total_rows at line 929.                            *)
StartProcessing(r) ==
    /\ rq[r].pc = "idle"
    /\ IF rq[r].filename \notin DOMAIN temp_files
       THEN /\ rq' = [rq EXCEPT
                         ![r].pc = "failed",
                         ![r].error = "Enhanced processing error: File not found. Please upload again."]
            /\ UNCHANGED <<wb, df, task, hist>>
       ELSE LET book == temp_files[rq[r].filename].rows
                index == 0..(Len(book) - 1)
            IN  /\ wb' = [wb EXCEPT ![r] = book]
                /\ df' = [df EXCEPT ![r] = [i \in index |-> AllColumns(<<>>)]]
                /\ Launch(r, 0, [i \in index |-> AbsentTask],
                          [i \in index |-> [launched |-> 0, written |-> <<>>]])
                /\ rq' = IF book = <<>>
                         THEN [rq EXCEPT ![r].pc = "failed",
                                         ![r].error = "Enhanced processing error: float division by zero"]
                         ELSE [rq EXCEPT ![r].pc = "gather",
                                         ![r].batch_start = 0]
    /\ UNCHANGED <<search_cache, sem_value, sem_waiters, env>>
    /\ UNCHANGED parse_vars
    /\ UNCHANGED svc_vars

(* Lines 884-920 and 962-1017: the gathered results are written in task    *)
(* order, a raised one is skipped; then the pause before the next batch,   *)
(* or the end of the request: the table is stored under a new file_id and  *)
(* the upload is dropped.                                                  *)
CollectBatch(r) ==
    /\ rq[r].pc = "gather"
    /\ GatherDone(r)
    /\ LET bs == rq[r].batch_start
           batch == batch_rows(bs, total_rows(r))
           Writers(j) ==
               {i \in batch : IsRowResult(task[r][i]) /\ WriteRow(i, bs) = j}
           Last(j) == CHOOSE i \in Writers(j) : \A k \in Writers(j) : k <= i
       IN  /\ df' = [df EXCEPT ![r] =
                 [j \in Rows(r) |->
                     IF Writers(j) = {} THEN df[r][j]
                     ELSE [c \in DOMAIN df[r][j] |->
                             IF c \in DOMAIN task[r][Last(j)].outputs
                             THEN task[r][Last(j)].outputs[c]
                             ELSE df[r][j][c]]]]
           /\ hist' = [hist EXCEPT ![r] =
                 [j \in Rows(r) |->
                     [hist[r][j] EXCEPT
                         !.written = @ \o Ascending(Writers(j))]]]
           /\ task' = [task EXCEPT ![r] =
                 [i \in Rows(r) |->
                     IF i \in batch /\ Finished(task[r][i])
                     THEN [AbsentTask EXCEPT !.pc = "collected"]
                     ELSE task[r][i]]]
           /\ IF batch_end(bs, total_rows(r)) < total_rows(r)
              THEN /\ rq' = [rq EXCEPT ![r].pc = "pause"]
                   /\ UNCHANGED store_vars
              ELSE /\ rq' = [rq EXCEPT ![r].pc = "done"]
                   /\ processed_files' =
                         Put(processed_files, file_id(processed_files), df'[r])
                   /\ temp_files' = DropUpload(temp_files, rq[r].filename)
    /\ UNCHANGED <<wb, search_cache, sem_value, sem_waiters, env>>
    /\ UNCHANGED parse_vars
    /\ UNCHANGED <<up, dl, call>>

(* Lines 918-920 and 874-884: after the pause the next batch is gathered. *)
NextBatch(r) ==
    /\ rq[r].pc = "pause"
    /\ rq' = [rq EXCEPT ![r].pc = "gather",
                        ![r].batch_start = @ + BATCH_SIZE]
    /\ Launch(r, rq[r].batch_start + BATCH_SIZE, task[r], hist[r])
    /\ UNCHANGED <<wb, df, search_cache, sem_value, sem_waiters, env>>
    /\ UNCHANGED parse_vars
    /\ UNCHANGED svc_vars

(***************************************************************************)
(* exa_search, lines 122-350: what the search tool may answer and what is  *)
(* returned and stored for each answer.                                    *)
(***************************************************************************)
ToolData(urls) == [kind |-> "data", urls |-> urls]

(* Lines 195, 202 and 235: the slices [:5]. *)
ResultCap == 5

(* process_search_data, lines 191-251, as far as urls_found goes.  The     *)
(* payload is a list of items and each item a list of the URLs of its      *)
(* results, "" for a result without URL: a structured object is an item of *)
(* one result (lines 215-221), a text item with embedded JSON an item of   *)
(* the results of its JSON (lines 196-208), a single text or JSON payload  *)
(* a list of one such item (lines 229-241).  The first ResultCap items are *)
(* walked, and in each the first ResultCap results; a result with a URL    *)
(* adds it to urls_found.                                                  *)
process_search_data(data) ==
    LET items == Take(data, ResultCap)
    IN  Concat([i \in DOMAIN items |->
                  SelectSeq(Take(items[i], ResultCap), LAMBDA url : url # "")])

ToolEmpty == [kind |-> "empty", urls |-> <<>>]

(* The tool is not listed (line 141), the call raises McpError (line 155), *)
(* anything else raises (line 332).                                        *)
SearchFailure(k) == [kind |-> k, urls |-> <<>>]

SearchFailures ==
    {SearchFailure(k) : k \in {"tool_missing", "mcp_error", "exception"}}

(* A variant of lines 141-165 that marks every failure as an error. *)
ResultMarkingFailures(o) ==
    CASE o.kind = "data" -> FoundResult(o.urls)
      [] o.kind = "empty" -> DegradedResult("No web search results found.")
      [] OTHER -> ErrorResult

ResultOf(o) ==
    CASE o.kind = "data" -> FoundResult(o.urls)
      [] o.kind = "empty" -> DegradedResult("No web search results found.")
      [] o.kind = "tool_missing" ->
            DegradedResult("Error: Exa search tool not available.")
      [] o.kind = "mcp_error" -> DegradedResult("Exa search error")
      [] o.kind = "exception" -> ErrorResult

(* Lines 150, 164, 184, 327-328 and 349: only the parsed result asks for   *)
(* room in the cache.                                                      *)
StoreResult(cache, key, o) ==
    IF o.kind = "data" /\ ~(Cardinality(DOMAIN cache) < CACHE_SIZE)
    THEN cache
    ELSE Put(cache, key, ResultOf(o))

(***************************************************************************)
(* process_row_async, lines 686-854, one action for each stretch between   *)
(* two awaits.                                                             *)
(***************************************************************************)

(* Lines 690-717 and 122-134: the task runs to its first await: it ends at *)
(* once (extraction raises, too few words), finds its query in the cache   *)
(* and calls the LLM, takes a permit and sleeps, or waits for a permit.    *)
TaskStart(r, i) ==
    /\ i \in Rows(r)
    /\ task[r][i].pc = "new"
    /\ LET row == wb[r][i + 1]
           t == task[r][i]
           key == get_cache_key(search_query(row))
       IN  IF ExtractionRaises(row)
           THEN /\ task' = [task EXCEPT ![r][i] =
                       RowHandler(t, FALSE, "The truth value of a Series is ambiguous.")]
                /\ UNCHANGED <<sem_value, sem_waiters>>
           ELSE IF TooShort(row)
           THEN /\ task' = [task EXCEPT ![r][i] =
                       Returned(t, AllColumns(InsufficientValue))]
                /\ UNCHANGED <<sem_value, sem_waiters>>
           ELSE IF key \in DOMAIN search_cache
           THEN /\ task' = [task EXCEPT ![r][i] =
                       [t EXCEPT !.pc = "llm", !.search = search_cache[key]]]
                /\ UNCHANGED <<sem_value, sem_waiters>>
           ELSE IF PermitFree(sem_value)
           THEN /\ task' = [task EXCEPT ![r][i].pc = "rate_delay"]
                /\ sem_value' = sem_value - 1
                /\ UNCHANGED sem_waiters
           ELSE /\ task' = [task EXCEPT ![r][i].pc = "sem_wait"]
                /\ sem_waiters' = Append(sem_waiters, <<r, i>>)
                /\ UNCHANGED sem_value
    /\ UNCHANGED <<wb, rq, df, search_cache, env, hist>>
    /\ UNCHANGED parse_vars
    /\ UNCHANGED svc_vars

(* Line 132: the first waiter takes a permit that was released. *)
SemWake(r, i) ==
    /\ i \in Rows(r)
    /\ task[r][i].pc = "sem_wait"
    /\ sem_waiters # <<>>
    /\ Head(sem_waiters) = <<r, i>>
    /\ PermitFree(sem_value)
    /\ sem_value' = sem_value - 1
    /\ sem_waiters' = Tail(sem_waiters)
    /\ task' = [task EXCEPT ![r][i].pc = "rate_delay"]
    /\ UNCHANGED <<wb, rq, df, search_cache, env, hist>>
    /\ UNCHANGED parse_vars
    /\ UNCHANGED svc_vars

(* Line 134: the rate-limit delay is over, the tool is called. *)
RateDelayDone(r, i) ==
    /\ i \in Rows(r)
    /\ task[r][i].pc = "rate_delay"
    /\ task' = [task EXCEPT ![r][i].pc = "tool_call"]
    /\ UNCHANGED <<wb, rq, df, search_cache, sem_value, sem_waiters, env, hist>>
    /\ UNCHANGED parse_vars
    /\ UNCHANGED svc_vars

(* Lines 136-350 and 717-809: the tool session ends with an answer or a    *)
(* failure; the result is stored, the permit is released and the task      *)
(* calls the LLM.                                                          *)
ToolReturns(r, i) ==
    /\ i \in Rows(r)
    /\ task[r][i].pc = "tool_call"
    /\ \E o \in env.tool_replies \cup
                (IF env.search_faults > 0 THEN env.failures ELSE {}) :
          /\ search_cache' =
                StoreResult(search_cache,
                            get_cache_key(search_query(wb[r][i + 1])), o)
          /\ task' = [task EXCEPT ![r][i].pc = "llm",
                                  ![r][i].search = ResultOf(o)]
          /\ env' = IF o \in SearchFailures
                    THEN [env EXCEPT !.search_faults = @ - 1]
                    ELSE env
          /\ sem_value' = Release(sem_value, o)
    /\ UNCHANGED <<wb, rq, df, sem_waiters, hist>>
    /\ UNCHANGED parse_vars
    /\ UNCHANGED svc_vars

(* Lines 358-366 and 809-842: the completion returns and is parsed. *)
LLMReturns(r, i) ==
    /\ i \in Rows(r)
    /\ task[r][i].pc = "llm"
    /\ \E reply \in env.replies :
          task' = [task EXCEPT ![r][i] = AfterCompletion(task[r][i], reply)]
    /\ UNCHANGED <<wb, rq, df, search_cache, sem_value, sem_waiters, env, hist>>
    /\ UNCHANGED parse_vars
    /\ UNCHANGED svc_vars

(* A variant of line 368 that always tries again. *)
RetryAlways(retry_count) == TRUE

(* Line 368. *)
MayRetry(retry_count) == retry_count < MAX_RETRIES

(* Line 370: the seconds slept before attempt retry_count + 1. *)
backoff(retry_count) == 2 ^ retry_count

(* Lines 367-373: the completion raises: a backoff and another attempt     *)
(* while retry_count < MAX_RETRIES, the failure text otherwise.            *)
LLMRaises(r, i) ==
    /\ i \in Rows(r)
    /\ task[r][i].pc = "llm"
    /\ env.llm_faults > 0
    /\ env' = [env EXCEPT !.llm_faults = @ - 1]
    /\ task' = [task EXCEPT ![r][i] =
                  IF MayRetry(task[r][i].retry_count)
                  THEN [task[r][i] EXCEPT
                           !.pc = "backoff",
                           !.delay = backoff(task[r][i].retry_count)]
                  ELSE AfterCompletion([task[r][i] EXCEPT !.gave_up = TRUE],
                                       ExhaustedReply)]
    /\ UNCHANGED <<wb, rq, df, search_cache, sem_value, sem_waiters, hist>>
    /\ UNCHANGED parse_vars
    /\ UNCHANGED svc_vars

(* Lines 370-371: the backoff is over, call_openai calls itself. *)
BackoffDone(r, i) ==
    /\ i \in Rows(r)
    /\ task[r][i].pc = "backoff"
    /\ task' = [task EXCEPT ![r][i].pc = "llm", ![r][i].delay = 0,
                            ![r][i].retry_count = @ + 1]
    /\ UNCHANGED <<wb, rq, df, search_cache, sem_value, sem_waiters, env, hist>>
    /\ UNCHANGED parse_vars
    /\ UNCHANGED svc_vars

(***************************************************************************)
(* exa_search called on its own, lines 122-350, one action for each        *)
(* stretch between two awaits.                                             *)
(***************************************************************************)

(* A call: where it stands, its query, the result it returned, and what    *)
(* the tool session answered to it (a hit asks no tool).                   *)
NoCall ==
    [pc |-> "none", query |-> <<>>, result |-> NoResult,
     reply |-> [kind |-> "", urls |-> <<>>]]

CacheHit == [kind |-> "hit", urls |-> <<>>]

Callers == 1..(CACHE_SIZE + 2)

(* Lines 122-134: the key is looked up; on a hit the cached result is      *)
(* returned, otherwise the call takes a permit and sleeps, or waits for a  *)
(* permit.                                                                 *)
ExaStart(c) ==
    /\ call[c].pc = "new"
    /\ LET key == get_cache_key(call[c].query)
       IN  IF key \in DOMAIN search_cache
           THEN /\ call' = [call EXCEPT ![c].pc = "returned",
                                        ![c].result = search_cache[key],
                                        ![c].reply = CacheHit]
                /\ UNCHANGED <<sem_value, sem_waiters>>
           ELSE IF PermitFree(sem_value)
           THEN /\ call' = [call EXCEPT ![c].pc = "rate_delay"]
                /\ sem_value' = sem_value - 1
                /\ UNCHANGED sem_waiters
           ELSE /\ call' = [call EXCEPT ![c].pc = "sem_wait"]
                /\ sem_waiters' = Append(sem_waiters, <<0, c>>)
                /\ UNCHANGED sem_value
    /\ UNCHANGED <<wb, rq, df, task, search_cache, env, hist>>
    /\ UNCHANGED parse_vars
    /\ UNCHANGED <<store_vars, up, dl>>

(* Line 132: the first waiter takes a permit that was released. *)
ExaWake(c) ==
    /\ call[c].pc = "sem_wait"
    /\ sem_waiters # <<>>
    /\ Head(sem_waiters) = <<0, c>>
    /\ PermitFree(sem_value)
    /\ sem_value' = sem_value - 1
    /\ sem_waiters' = Tail(sem_waiters)
    /\ call' = [call EXCEPT ![c].pc = "rate_delay"]
    /\ UNCHANGED <<wb, rq, df, task, search_cache, env, hist>>
    /\ UNCHANGED parse_vars
    /\ UNCHANGED <<store_vars, up, dl>>

(* Line 134: the rate-limit delay is over, the tool is called. *)
ExaDelayDone(c) ==
    /\ call[c].pc = "rate_delay"
    /\ call' = [call EXCEPT ![c].pc = "tool_call"]
    /\ UNCHANGED run_vars
    /\ UNCHANGED parse_vars
    /\ UNCHANGED <<store_vars, up, dl>>

(* Lines 136-350: the tool session ends with an answer or a failure; the   *)
(* result is stored and returned, the permit is released.                  *)
ExaToolReturns(c) ==
    /\ call[c].pc = "tool_call"
    /\ \E o \in env.tool_replies \cup
                (IF env.search_faults > 0 THEN env.failures ELSE {}) :
          /\ search_cache' =
                StoreResult(search_cache, get_cache_key(call[c].query), o)
          /\ call' = [call EXCEPT ![c].pc = "returned",
                                  ![c].result = ResultOf(o),
                                  ![c].reply = o]
          /\ env' = IF o \in SearchFailures
                    THEN [env EXCEPT !.search_faults = @ - 1]
                    ELSE env
          /\ sem_value' = Release(sem_value, o)
    /\ UNCHANGED <<wb, rq, df, task, sem_waiters, hist>>
    /\ UNCHANGED parse_vars
    /\ UNCHANGED <<store_vars, up, dl>>

NextSearch ==
    \E c \in Callers :
        \/ ExaStart(c)
        \/ ExaWake(c)
        \/ ExaDelayDone(c)
        \/ ExaToolReturns(c)

(* Row indices of the largest workbook. *)
RowIndex == 0..(MaxRows - 1)

(* The steps of the row tasks. *)
NextTask ==
    \E r \in Requests, i \in RowIndex :
        \/ TaskStart(r, i)
        \/ RateDelayDone(r, i)
        \/ ToolReturns(r, i)
        \/ LLMReturns(r, i)
        \/ LLMRaises(r, i)
        \/ BackoffDone(r, i)

(* A request whose rows fit one batch and find a permit free. *)
NextRow ==
    \/ \E r \in Requests : StartProcessing(r) \/ CollectBatch(r)
    \/ NextTask

NextRun ==
    \/ \E r \in Requests : StartProcessing(r) \/ CollectBatch(r) \/ NextBatch(r)
    \/ \E r \in Requests, i \in RowIndex : SemWake(r, i)
    \/ NextTask

(***************************************************************************)
(* Rows, replies and initial states.                                       *)
(***************************************************************************)

(* One word; four words; five words; the same five in other letter case;   *)
(* five other words; no text at all; a row of a workbook in which two      *)
(* columns share the normalized name of an input column.                   *)
ShortRow == <<TextCell(<<"ledger">>), NaNCell>>

FourRow == <<TextCell(<<"real", "time">>), TextCell(<<"ledger", "posting">>)>>

FiveRow ==
    <<TextCell(<<"real", "time", "ledger">>), TextCell(<<"posting", "of">>)>>

FiveRowUpper ==
    <<TextCell(<<"Real", "Time", "LEDGER">>), TextCell(<<"posting", "of">>)>>

OtherRow ==
    <<TextCell(<<"multi", "currency", "account", "statement", "engine">>),
      NaNCell>>

BlankRow == <<NaNCell, TextCell(<<>>)>>

DupRow == <<SeriesCell, TextCell(<<"posting", "of", "real", "time", "ledger">>)>>

RowKinds == {ShortRow, FourRow, FiveRow, FiveRowUpper, BlankRow, DupRow}

YesReply ==
    TextReply(<<<<"RESPONSE", COLON, "Yes">>,
                <<"EXPLANATION", COLON, "because">>>>)

UpperNoReply ==
    TextReply(<<<<"Response", COLON, "NO">>,
                <<"REMARK", COLON, "supported">>>>)

MaybeReply == TextReply(<<<<"RESPONSE", COLON, "Maybe">>>>)

OfficialUrls == <<"//docs.oracle.com/a", "//docs.oracle.com/b">>

(* A process request: where it stands, the batch it gathers, the upload   *)
(* it names and the message of its failure.                               *)
NoRequest ==
    [pc |-> "absent", batch_start |-> 0, filename |-> <<>>, error |-> ""]

(* No upload and no download has been made. *)
SvcIdle ==
    /\ processed_files = <<>>
    /\ up = NoUpload
    /\ dl = NoDownload

(* No request has come in. *)
RunIdle ==
    /\ wb = [r \in Requests |-> <<>>]
    /\ rq = [r \in Requests |-> NoRequest]
    /\ temp_files = <<>>
    /\ SvcIdle
    /\ df = [r \in Requests |-> <<>>]
    /\ task = [r \in Requests |-> <<>>]
    /\ hist = [r \in Requests |-> <<>>]
    /\ search_cache = <<>>
    /\ sem_value = MAX_CONCURRENT_REQUESTS
    /\ sem_waiters = <<>>
    /\ env = [replies |-> {}, tool_replies |-> {}, failures |-> {},
              llm_faults |-> 0,
              search_faults |-> 0]

(* extract_column_values is not being called. *)
ParseIdle ==
    /\ text = <<>>
    /\ out_cols = OutputCols
    /\ info = NoEvidence
    /\ pst = ParserInit(OutputCols)
    /\ pos = 0
    /\ stage = "off"

(* The workbooks were uploaded, each under its own identifier, and the     *)
(* process requests that name them have come in; nothing else is done.     *)
Loaded(books) ==
    /\ temp_files =
          [f \in {temp_filename(r, "rfp.xlsx") :
                      r \in {q \in Requests : books[q] # <<>>}} |->
              Workbook(books[f[2]])]
    /\ SvcIdle
    /\ wb = [r \in Requests |-> <<>>]
    /\ rq = [r \in Requests |->
                IF books[r] = <<>> THEN NoRequest
                ELSE [NoRequest EXCEPT !.pc = "idle",
                         !.filename = temp_filename(r, "rfp.xlsx")]]
    /\ df = [r \in Requests |-> <<>>]
    /\ task = [r \in Requests |-> <<>>]
    /\ hist = [r \in Requests |-> <<>>]
    /\ search_cache = <<>>
    /\ sem_value = MAX_CONCURRENT_REQUESTS
    /\ sem_waiters = <<>>

(* A call of extract_column_values on any text, columns and evidence. *)
InitParse ==
    /\ text \in Texts
    /\ out_cols \in ColumnConfigs
    /\ info \in SearchInfos
    /\ pst = ParserInit(out_cols)
    /\ pos = 0
    /\ stage = "scan"
    /\ RunIdle
    /\ call = [c \in Callers |-> NoCall]

SpecParse == InitParse /\ [][NextParse]_vars

(* One request over a workbook of two rows of any kind; the LLM may give   *)
(* any reply and fail until the retries are used up.                       *)
InitRow ==
    /\ ParseIdle
    /\ \E a \in RowKinds, b \in RowKinds :
          Loaded([r \in Requests |-> IF r = 1 THEN <<a, b>> ELSE <<>>])
    /\ call = [c \in Callers |-> NoCall]
    /\ env = [replies |-> {YesReply, UpperNoReply, MaybeReply, NoneReply},
              tool_replies |-> {ToolData(OfficialUrls), ToolEmpty},
              failures |-> SearchFailures,
              llm_faults |-> MAX_RETRIES + 1,
              search_faults |-> 1]

SpecRow == InitRow /\ [][NextRow]_vars

(* Workbooks of MaxRows rows: every row with enough words and the same     *)
(* query, or one row with another query, with too few words or with a      *)
(* doubled input column, at either end of the workbook.                    *)
Books ==
    { [i \in 1..MaxRows |-> IF i = at THEN kind ELSE FiveRow] :
        at \in {1, MaxRows}, kind \in {FiveRow, OtherRow, ShortRow, DupRow} }

(* Two requests at once: the first over a workbook of MaxRows rows, the    *)
(* second over one row whose query has the cache key of the five-word row. *)
InitBatch ==
    /\ ParseIdle
    /\ \E book \in Books :
          Loaded([r \in Requests |-> IF r = 1 THEN book ELSE <<FiveRowUpper>>])
    /\ call = [c \in Callers |-> NoCall]
    /\ env = [replies |-> {YesReply},
              tool_replies |-> {ToolData(OfficialUrls)},
              failures |-> {SearchFailure("exception")},
              llm_faults |-> BatchFaults,
              search_faults |-> BatchFaults]

Spec == InitBatch /\ [][NextRun]_vars

(* The runs over the workbook whose last row raises, when the event loop   *)
(* goes on: as long as some coroutine can take a step, one is resumed, and *)
(* every call of the search tool and of the LLM returns or raises in the   *)
(* end.                                                                    *)
InitFair ==
    /\ InitBatch
    /\ ExtractionRaises(temp_files[rq[1].filename].rows[MaxRows])

SpecFair == InitFair /\ [][NextRun]_vars /\ WF_vars(NextRun)

(* The queries of the direct calls: one query, then the same in other      *)
(* letter case, with whitespace around it, or with more whitespace inside  *)
(* it, then queries of their own; in one list the third call asks the      *)
(* first query once more, in upper case.                                   *)
QueryLists ==
    {<<<<"real", "time">>, <<"Real", "Time">>, <<"ledger">>, <<"posting">>,
       <<"account">>>>,
     <<<<"real", "time">>, <<BLANK, "real", "time", NL>>, <<"REAL", "TIME">>,
       <<"posting">>, <<"account">>>>,
     <<<<"real", "time">>, <<"real", BLANK, "time">>, <<"ledger">>,
       <<"posting">>, <<"account">>>>}

(* What the tool may answer: a text item without results; two structured  *)
(* objects with a URL and one without; a single JSON payload of three results; four structured        *)
(* objects, one of oracle.com in upper case; a single JSON payload with two *)
(* oracle.com results; two text items with embedded JSON, of seven results  *)
(* and of one.                                                             *)
ToolPayloads ==
    {<<<<>>>>,
     <<<<"//github.com/a">>, <<"">>, <<"//github.com/b">>>>,
     <<<<"//github.com/a", "//github.com/b", "//stackoverflow.com/c">>>>,
     <<<<"//DOCS.ORACLE.COM/c">>, <<"//github.com/a">>, <<"//github.com/b">>,
       <<"//stackoverflow.com/c">>>>,
     <<<<"//docs.oracle.com/a", "//github.com/a", "//DOCS.ORACLE.COM/c">>>>,
     <<<<"//github.com/a", "//github.com/b", "//stackoverflow.com/c",
         "//github.com/a", "//github.com/b", "//stackoverflow.com/c",
         "//github.com/a">>,
       <<"//github.com/b">>>>}

(* CACHE_SIZE + 2 calls of exa_search, in any interleaving; the tool gives *)
(* one payload or nothing, and may fail once in any way.                   *)
InitSearch ==
    /\ ParseIdle
    /\ Loaded([r \in Requests |-> <<>>])
    /\ \E queries \in QueryLists, data \in ToolPayloads :
          /\ call = [c \in Callers |->
                        [NoCall EXCEPT !.pc = "new", !.query = queries[c]]]
          /\ env = [replies |-> {},
                    tool_replies |-> {ToolData(process_search_data(data)),
                                      ToolEmpty},
                    failures |-> SearchFailures,
                    llm_faults |-> 0,
                    search_faults |-> 1]

SpecSearch == InitSearch /\ [][NextSearch]_vars

(* The uploads of the model: a workbook without rows, one with a row of    *)
(* one word, one that lacks the second input column of the request; bytes  *)
(* over 100 MB and bytes that are no workbook; two file names; two         *)
(* seconds of the clock.                                                   *)
Uploads ==
    {Workbook(<<>>), Workbook(<<ShortRow>>),
     Workbook(<<<<TextCell(<<"ledger">>), AbsentCell>>,
                <<TextCell(<<"posting">>), AbsentCell>>>>),
     [Workbook(<<>>) EXCEPT !.small = FALSE],
     [Workbook(<<>>) EXCEPT !.readable = FALSE]}

Filenames == {"RFP.XLS", "rfp.pdf"}

Timestamps == {1, 2}

NextStore ==
    \/ \E file_content \in Uploads, filename \in Filenames,
          timestamp \in Timestamps : Upload(file_content, filename, timestamp)
    \/ \E id \in {<<"result", n>> : n \in 1..(Cardinality(Requests) + 1)} :
          Download(id)
    \/ \E r \in Requests : StartProcessing(r) \/ CollectBatch(r)
    \/ \E r \in Requests, i \in RowIndex : TaskStart(r, i)

(* Nothing is stored; each request names the identifier of an upload that  *)
(* may come in before it, after it or never.                               *)
InitStore ==
    /\ ParseIdle
    /\ temp_files = <<>>
    /\ SvcIdle
    /\ call = [c \in Callers |-> NoCall]
    /\ wb = [r \in Requests |-> <<>>]
    /\ df = [r \in Requests |-> <<>>]
    /\ task = [r \in Requests |-> <<>>]
    /\ hist = [r \in Requests |-> <<>>]
    /\ search_cache = <<>>
    /\ sem_value = MAX_CONCURRENT_REQUESTS
    /\ sem_waiters = <<>>
    /\ env = [replies |-> {}, tool_replies |-> {}, failures |-> {},
              llm_faults |-> 0, search_faults |-> 0]
    /\ \E names \in [Requests ->
                        {temp_filename(t, f) :
                            t \in Timestamps,
                            f \in {n \in Filenames : HasExcelSuffix(n)}}] :
          rq = [r \in Requests |->
                  [NoRequest EXCEPT !.pc = "idle", !.filename = names[r]]]

SpecStore == InitStore /\ [][NextStore]_vars

(***************************************************************************)
(* Properties of extract_column_values, checked under SpecParse.           *)
(***************************************************************************)

(* The call is over and its columns include a response and a remark one. *)
Composed ==
    /\ stage = "done"
    /\ response_col(out_cols) # None
    /\ remark_col(out_cols) # None

FinalResponse == response_value(pst.results, out_cols)

FinalRemark == pst.results[remark_col(out_cols)]

HasReferenceSection(s) ==
    \E k \in 1..(Len(s) - 2) :
        /\ s[k] = "Reference"
        /\ s[k + 1] = "Sources"
        /\ s[k + 2] = "Consulted"

HasLink(s) ==
    \E k \in DOMAIN s : s[k] \in {"//docs.oracle.com/a", "//docs.oracle.com/b"}

(* C3: for every reply, column configuration and evidence result, when the *)
(* response value is No or Not found (letter case aside) the final remark  *)
(* holds no Reference Sources Consulted section and no source link.        *)
C3_NegativeRemarkCitesNothing ==
    (Composed /\ FinalResponse \in {<<"no">>, <<"not", "found">>})
        => ~HasReferenceSection(FinalRemark) /\ ~HasLink(FinalRemark)

(* C4 as stated: a remark composed for Yes or Partially holds a Reference  *)
(* Sources Consulted block after the explanation or fixed statement, and a *)
(* remark composed for No or Not found holds nothing after it.             *)
C4_PositiveRemarkCites ==
    Composed =>
        /\ FinalResponse \in {<<"yes">>, <<"partially">>}
              => HasReferenceSection(FinalRemark)
        /\ FinalResponse \in {<<"no">>, <<"not", "found">>}
              => FinalRemark \in {pst.explanation, GenericFor(FinalResponse)}

(* C4 amended: for each of the four response values the composed remark is *)
(* the explanation itself, or the fixed statement of the value itself when *)
(* there is no explanation: nothing is appended to either, for Yes and     *)
(* Partially no more than for No and Not found.                            *)
C4_NothingAppended ==
    (Composed /\ FinalResponse \in FourValues)
        => \/ pst.explanation # <<>> /\ FinalRemark = pst.explanation
           \/ pst.explanation = <<>> /\ FinalRemark = GenericFor(FinalResponse)

(* A Yes with two official sources at hand: the remark is the bare         *)
(* explanation.                                                            *)
C4_Witness ==
    /\ Composed
    /\ FinalResponse = <<"yes">>
    /\ info = HighEvidence
    /\ FinalRemark = <<"because">>

(* The EXPLANATION lines of a reply and the text each carries. *)
ExplanationAt(lines) == {k \in DOMAIN lines : IsExplanationLine(lines[k])}

ExplanationText(line) == SubSeq(line, 3, Len(line))

LastExplanation(lines) ==
    IF ExplanationAt(lines) = {} THEN <<>>
    ELSE ExplanationText(lines[CHOOSE k \in ExplanationAt(lines) :
                                  \A j \in ExplanationAt(lines) : j <= k])

(* C5 as stated: with a response and a remark column configured and one of *)
(* the four response values parsed, the final remark is the text of an     *)
(* EXPLANATION line when the reply holds a non-empty one, and the fixed    *)
(* statement of the response value otherwise.                              *)
C5_RemarkIsAnyExplanation ==
    (Composed /\ FinalResponse \in FourValues) =>
        IF \E k \in ExplanationAt(text) : ExplanationText(text[k]) # <<>>
        THEN \E k \in ExplanationAt(text) :
                /\ ExplanationText(text[k]) # <<>>
                /\ FinalRemark = ExplanationText(text[k])
        ELSE FinalRemark = GenericFor(FinalResponse)

(* C5 amended: with a response and a remark column configured and one of   *)
(* the four response values parsed, the final remark is the text of the    *)
(* last EXPLANATION line of the reply when that text is not empty, and the *)
(* fixed statement of the response value otherwise, whatever was parsed    *)
(* under the remark label.                                                 *)
C5_RemarkIsLastExplanation ==
    (Composed /\ FinalResponse \in FourValues) =>
        FinalRemark = IF LastExplanation(text) # <<>>
                      THEN LastExplanation(text)
                      ELSE GenericFor(FinalResponse)

(* A reply with a remark label, a filled EXPLANATION line and an empty one *)
(* after it: the remark is the fixed statement of No.                      *)
C5_Witness ==
    /\ Composed
    /\ text = << <<"Response", COLON, "NO">>,
                 <<"EXPLANATION", COLON, "because">>,
                 <<"Explanation", COLON>> >>
    /\ FinalRemark = GenericNo

(***************************************************************************)
(* Properties of process_row_async, checked under SpecRow.                 *)
(***************************************************************************)

IsErrorMarker(v) == v # <<>> /\ v[1] = "Processing error:"

AllErrorMarkers(outs) == \A c \in DOMAIN outs : IsErrorMarker(outs[c])

(* C1: no row task lets an exception escape to the orchestrator, and a row *)
(* whose pipeline raised (here: at the input extraction) ends with every   *)
(* output column holding a text that starts with Processing error:.        *)
C1_RowIsolation ==
    \A r \in Requests : \A i \in Rows(r) :
        /\ task[r][i].pc # "raised"
        /\ (rq[r].pc = "done" /\ ExtractionRaises(wb[r][i + 1]))
              => AllErrorMarkers(df[r][i])

(* C2: a row with enough content whose LLM call raised on the first        *)
(* attempt and on every retry returns with every output column holding a   *)
(* text that starts with Processing error:.                                *)
C2_ExhaustedRetriesMarkError ==
    \A r \in Requests : \A i \in Rows(r) :
        (task[r][i].pc = "returned" /\ task[r][i].gave_up)
            => AllErrorMarkers(task[r][i].outputs)

(* The row had enough words, its task returned a parsed reply. *)
Answered(r, i) ==
    /\ ~ExtractionRaises(wb[r][i + 1])
    /\ word_count(wb[r][i + 1]) >= MinWords
    /\ ~AllErrorMarkers(df[r][i])

(* C6: after process_excel is done the response column of every row holds *)
(* one of Yes, Partially, No, Not found; stated for the rows that were     *)
(* answered, which is the reading most favourable to the claim.            *)
C6_ResponseIsCanonical ==
    \A r \in Requests : \A i \in Rows(r) :
        (rq[r].pc = "done" /\ Answered(r, i))
            => df[r][i][<<"RESPONSE">>] \in
                  {<<"Yes">>, <<"Partially">>, <<"No">>, <<"Not", "found">>}

(* The row's cells are read without error and hold fewer than five words. *)
FewWords(row) == ~ExtractionRaises(row) /\ word_count(row) < MinWords

(* C7: a row whose input text has fewer than five words never waits for a  *)
(* permit, never searches, never calls the LLM, and returns every output   *)
(* column set to the insufficient-content text; when no row has five words *)
(* the cache stays empty and no permit is ever taken.                      *)
C7_FewWordsSkipCalls ==
    /\ \A r \in Requests : \A i \in Rows(r) :
          FewWords(wb[r][i + 1]) =>
              /\ task[r][i].pc \in {"none", "new", "returned", "collected"}
              /\ task[r][i].pc = "returned"
                    => task[r][i].outputs = AllColumns(InsufficientValue)
              /\ rq[r].pc = "done" => df[r][i] = AllColumns(InsufficientValue)
    /\ (\A r \in Requests : \A i \in Rows(r) : FewWords(wb[r][i + 1]))
          => /\ search_cache = <<>>
             /\ sem_value = MAX_CONCURRENT_REQUESTS
             /\ sem_waiters = <<>>

(* The row of four words has returned the insufficient-content text while  *)
(* the row next to it is with the LLM; the cache holds that row's query.   *)
C7_Witness ==
    /\ wb[1] = <<FourRow, FiveRow>>
    /\ task[1][0].pc = "returned"
    /\ task[1][0].outputs = AllColumns(InsufficientValue)
    /\ task[1][1].pc = "llm"
    /\ DOMAIN search_cache = {get_cache_key(search_query(FiveRow))}

(***************************************************************************)
(* Properties of process_all_rows and of the search permits, checked under *)
(* Spec.                                                                   *)
(***************************************************************************)

(* The chunk an index belongs to starts at this index. *)
ChunkStart(i) == (i \div BATCH_SIZE) * BATCH_SIZE

(* C8: the row indices are cut into consecutive chunks of BATCH_SIZE, one  *)
(* task is created for each index, never two, and the only result ever     *)
(* written into row i is the one of the task of row i, whatever the order  *)
(* in which the tasks finish; at the end every index has had its task, and *)
(* every row whose task returned holds that task's result.                 *)
C8_OrderAndExactlyOnce ==
    \A r \in Requests : \A i \in Rows(r) :
        /\ hist[r][i].launched <= 1
        /\ hist[r][i].launched = 1 <=> task[r][i].pc # "none"
        /\ Active(task[r][i]) => rq[r].batch_start = ChunkStart(i)
        /\ hist[r][i].written \in {<<>>, <<i>>}
        /\ rq[r].pc = "done" =>
              /\ hist[r][i].launched = 1
              /\ hist[r][i].written = <<i>> \/ ExtractionRaises(wb[r][i + 1])
              /\ df[r][i] = AllColumns(InsufficientValue)
                    <=> FewWords(wb[r][i + 1])

(* The first request is done over two chunks; its first row had too few    *)
(* words and holds the insufficient-content text, its last row holds an    *)
(* answer, each written by its own task.                                   *)
C8_Witness ==
    /\ rq[1].pc = "done"
    /\ total_rows(1) > BATCH_SIZE
    /\ wb[1][1] = ShortRow
    /\ \A i \in Rows(1) : hist[1][i].written = <<i>>
    /\ df[1][0] = AllColumns(InsufficientValue)
    /\ df[1][total_rows(1) - 1][<<"RESPONSE">>] = <<"Yes">>

(* C9: within a request every task in flight belongs to the chunk being    *)
(* gathered, so they number at most BATCH_SIZE; the tasks of the chunks    *)
(* before are all over and collected, those of the chunks after are not    *)
(* created.                                                                *)
C9_ChunkBarrier ==
    \A r \in Requests :
        LET InFlight == {i \in Rows(r) : Active(task[r][i])}
            chunk == batch_rows(rq[r].batch_start, total_rows(r))
        IN  /\ InFlight \subseteq chunk
            /\ Cardinality(InFlight) <= BATCH_SIZE
            /\ \A i \in Rows(r) :
                  /\ i < rq[r].batch_start => task[r][i].pc = "collected"
                  /\ i >= rq[r].batch_start + BATCH_SIZE
                        => task[r][i].pc = "none"

(* One task of the first chunk is done, another is still with the LLM, and *)
(* the task of the next chunk is not created.                              *)
C9_Witness ==
    /\ total_rows(1) > BATCH_SIZE
    /\ rq[1].batch_start = 0
    /\ task[1][1].pc = "returned"
    /\ task[1][0].pc = "llm"
    /\ task[1][BATCH_SIZE].pc = "none"

(* C10: over all rows, chunks and requests, the tasks past the permit      *)
(* acquisition of exa_search and not yet out of it number at most          *)
(* MAX_CONCURRENT_REQUESTS, and the permits left are the rest.             *)
C10_SearchBound ==
    /\ Cardinality(InSearch) <= MAX_CONCURRENT_REQUESTS
    /\ sem_value = MAX_CONCURRENT_REQUESTS - Cardinality(InSearch)

(* Every permit is taken, by tasks of both requests, and a task waits. *)
C10_Witness ==
    /\ Cardinality(InSearch) = MAX_CONCURRENT_REQUESTS
    /\ \E p \in InSearch : p[1] = 1
    /\ \E p \in InSearch : p[1] = 2
    /\ sem_waiters # <<>>

(***************************************************************************)
(* Properties of call_openai, checked under SpecRow.                       *)
(***************************************************************************)

(* The documented waits before the first, second and third retry. *)
DocumentedWaits == <<1, 2, 4>>

(* C15: call_openai never raises: a completion that fails is followed by a *)
(* wait of 2^k seconds (1, 2, 4) and attempt k + 1 while k < MAX_RETRIES;  *)
(* the failure at k = MAX_RETRIES ends the call with the failure text; any *)
(* other end of the call is a return, so the attempts are bounded.         *)
C15_RetryPolicy ==
    [][\A r \in Requests : \A i \in DOMAIN task[r] \cap DOMAIN task'[r] :
          LET t == task[r][i]
              u == task'[r][i]
          IN  /\ t.retry_count \in 0..MAX_RETRIES
              /\ (t.pc = "llm" /\ u.pc = "backoff") =>
                      /\ t.retry_count < MAX_RETRIES
                      /\ u.retry_count = t.retry_count
                      /\ u.delay = DocumentedWaits[t.retry_count + 1]
              /\ (t.pc = "backoff" /\ u.pc # "backoff") =>
                      u.pc = "llm" /\ u.retry_count = t.retry_count + 1
              /\ (t.pc = "llm" /\ u.pc \notin {"llm", "backoff"}) =>
                      /\ u.pc = "returned"
                      /\ u.gave_up <=>
                            (env'.llm_faults < env.llm_faults
                                /\ t.retry_count = MAX_RETRIES)
                      /\ u.gave_up =>
                            u.outputs =
                              extract_column_values(ExhaustedReply.lines,
                                  OutputCols, search_info(t.search))]_vars

(* A call gave up after the last wait of four seconds. *)
C15_Witness ==
    \E r \in Requests : \E i \in DOMAIN task[r] :
        /\ task[r][i].gave_up
        /\ task[r][i].pc = "returned"
        /\ env.llm_faults = 0

(***************************************************************************)
(* Properties of exa_search and its cache, checked under SpecSearch.       *)
(***************************************************************************)

(* C11: the cache never holds more than CACHE_SIZE entries: at CACHE_SIZE  *)
(* entries a miss of any outcome is returned and not inserted.             *)
C11_CacheBounded == Cardinality(DOMAIN search_cache) <= CACHE_SIZE

(* The letters of a word without their case. *)
FoldCase(w) ==
    CASE w \in {"Real", "REAL"} -> "real"
      [] w \in {"Time", "TIME"} -> "time"
      [] OTHER -> w

FoldQuery(q) == [i \in DOMAIN q |-> FoldCase(q[i])]

(* The query without the whitespace before its first and after its last   *)
(* word.                                                                   *)
Trimmed(q) ==
    LET words == {i \in DOMAIN q : q[i] \notin {" ", "\n"}}
    IN  IF words = {} THEN <<>>
        ELSE SubSeq(q, CHOOSE i \in words : \A j \in words : i <= j,
                       CHOOSE i \in words : \A j \in words : j <= i)

(* The query without any whitespace. *)
Squeezed(q) == SelectSeq(q, LAMBDA w : w \notin {" ", "\n"})

(* Call c runs from its start to its first await or to its return. *)
Starts(c) == call[c].pc = "new" /\ call'[c].pc # "new"

(* Call d has run the search itself and has returned. *)
Computed(d) == call[d].pc = "returned" /\ call[d].reply # CacheHit

(* C12: of two sequential calls whose queries differ only in letter case   *)
(* or whitespace, the second runs no search and returns the result of the  *)
(* first.                                                                  *)
C12_SequentialCallsShare ==
    [][\A c \in Callers, d \in Callers :
          (/\ c # d
           /\ Computed(d)
           /\ FoldQuery(Squeezed(call[c].query))
                 = FoldQuery(Squeezed(call[d].query))
           /\ Starts(c))
          => /\ call'[c].pc = "returned"
             /\ call'[c].result = call[d].result]_vars

(* C12, amended: a call whose query differs only in letter case or in      *)
(* leading and trailing whitespace from the query of an earlier call whose *)
(* result is in the cache runs no search and returns the cached result.    *)
C12_StoredResultIsShared ==
    [][\A c \in Callers, d \in Callers :
          (/\ c # d
           /\ Computed(d)
           /\ get_cache_key(call[d].query) \in DOMAIN search_cache
           /\ FoldQuery(Trimmed(call[c].query))
                 = FoldQuery(Trimmed(call[d].query))
           /\ Starts(c))
          => /\ call'[c].pc = "returned"
             /\ call'[c].reply = CacheHit
             /\ call'[c].result = search_cache[get_cache_key(call[d].query)]
             /\ UNCHANGED <<search_cache, sem_value, sem_waiters>>]_vars

(* The second call, in other letters or with whitespace around the query,  *)
(* was served the stored result of the first.                              *)
C12_Witness ==
    /\ Computed(1)
    /\ call[2].pc = "returned"
    /\ call[2].reply = CacheHit
    /\ call[2].query # call[1].query
    /\ call[2].result = call[1].result
    /\ call[2].result.sources # <<>>

(* The calls that have returned and the results they were given; the      *)
(* results that exa_search returned or stored.                             *)
ReturnedCalls == {c \in Callers : call[c].pc = "returned"}

Results ==
    {call[c].result : c \in ReturnedCalls}
        \cup {search_cache[k] : k \in DOMAIN search_cache}

FailureKinds == {"tool_missing", "mcp_error", "exception"}

(* C13: every failure of the tool session is turned into a returned result *)
(* with evidence_strength Error, no sources and a content that explains    *)
(* it.                                                                     *)
C13_FailuresReturnError ==
    \A c \in ReturnedCalls :
        call[c].reply.kind \in FailureKinds =>
            /\ call[c].result.evidence_strength = "Error"
            /\ call[c].result.sources = <<>>
            /\ call[c].result.content # ""

(* C13, amended: every failure is turned into a returned result with no    *)
(* sources and a content that explains it; its evidence_strength is None   *)
(* when the tool is not listed or the tool call raises McpError, and Error *)
(* for any other exception. A call ends in no other way than by returning. *)
C13_FailuresReturnErrorOrNone ==
    /\ \A c \in ReturnedCalls :
          call[c].reply.kind \in FailureKinds =>
              /\ call[c].result.evidence_strength =
                    (IF call[c].reply.kind = "exception"
                     THEN "Error" ELSE "None")
              /\ call[c].result.sources = <<>>
              /\ call[c].result.content # ""
    /\ \A c \in Callers :
          call[c].pc \in
              {"new", "sem_wait", "rate_delay", "tool_call", "returned"}

(* A call whose tool was not listed, or whose tool call raised McpError,   *)
(* has returned.                                                           *)
C13_Witness ==
    \E c \in ReturnedCalls : call[c].reply.kind \in {"tool_missing", "mcp_error"}

(* C14: every result returned or stored, those of failures included, with  *)
(* two or more oracle sources is High, and with no source of either kind   *)
(* is None.                                                                *)
C14_Monotonicity ==
    \A res \in Results :
        /\ res.oracle_sources >= 2 => res.evidence_strength = "High"
        /\ (res.oracle_sources = 0 /\ res.community_sources = 0) =>
              res.evidence_strength = "None"

(* C14, amended: every result returned or stored with two or more oracle   *)
(* sources is High; with no source of either kind it is None, or it is the *)
(* result of a failure by exception, which is Error.                       *)
C14_MonotonicityButError ==
    /\ \A res \in Results :
          /\ res.oracle_sources >= 2 => res.evidence_strength = "High"
          /\ (res.oracle_sources = 0 /\ res.community_sources = 0) =>
                res.evidence_strength \in {"None", "Error"}
          /\ res.evidence_strength = "Error" =>
                (res.oracle_sources = 0 /\ res.community_sources = 0)
    /\ \A c \in ReturnedCalls :
          call[c].reply # CacheHit =>
              (call[c].result.evidence_strength = "Error"
                  <=> call[c].reply.kind = "exception")

(* A stored result with two oracle sources, and a returned one with none.  *)
C14_Witness ==
    /\ \E k \in DOMAIN search_cache : search_cache[k].oracle_sources >= 2
    /\ \E c \in ReturnedCalls :
          /\ call[c].result.oracle_sources = 0
          /\ call[c].result.community_sources = 0

(* The found URLs that hold oracle.com, in any letter case, and the others. *)
RECURSIVE AuthorityCount(_)
AuthorityCount(urls) ==
    IF urls = <<>> THEN 0
    ELSE (IF Head(urls) \in {"//docs.oracle.com/a", "//docs.oracle.com/b",
                             "//DOCS.ORACLE.COM/c"} THEN 1 ELSE 0)
            + AuthorityCount(Tail(urls))

(* C20: for every search that parses a reply, with a the found URLs that   *)
(* hold oracle.com and c the other found URLs: High iff a >= 2; Moderate   *)
(* iff a = 1 or (a = 0 and c >= 3); Limited iff a = 0 and 1 <= c <= 2;     *)
(* None iff a = 0 and c = 0; Error comes from the failure path only.       *)
C20_StrengthDerivation ==
    \A d \in ReturnedCalls :
        LET a == AuthorityCount(call[d].reply.urls)
            c == Len(call[d].reply.urls) - a
            strength == call[d].result.evidence_strength
        IN  /\ call[d].reply.kind = "data" =>
                  /\ strength = "High" <=> a >= 2
                  /\ strength = "Moderate" <=> (a = 1 \/ (a = 0 /\ c >= 3))
                  /\ strength = "Limited" <=> (a = 0 /\ c \in 1..2)
                  /\ strength = "None" <=> (a = 0 /\ c = 0)
                  /\ strength # "Error"
            /\ (call[d].reply # CacheHit /\ strength = "Error") =>
                  call[d].reply.kind \in FailureKinds

(* A search parsed a reply with two community URLs and no oracle.com one.  *)
C20_Witness ==
    \E d \in ReturnedCalls :
        /\ call[d].reply.kind = "data"
        /\ Len(call[d].reply.urls) = 2
        /\ call[d].result.evidence_strength = "Limited"

(***************************************************************************)
(* Properties of the stores of PresalesAgentService, checked under         *)
(* SpecStore.                                                              *)
(***************************************************************************)

(* Request r ends in this step: with a result, or with an error. *)
Succeeds(r) == rq[r].pc # "done" /\ rq'[r].pc = "done"

Fails(r) == rq[r].pc # "failed" /\ rq'[r].pc = "failed"

(* The store keeps what it held. *)
Keeps(old, new) ==
    \A k \in DOMAIN old : k \in DOMAIN new /\ new[k] = old[k]

(* C16: a process request whose file is not in temp_files fails with file  *)
(* not found and changes neither store; an upload is removed exactly when  *)
(* its processing succeeds, and exactly one result is then added to        *)
(* processed_files; a run that fails leaves the upload and adds nothing.   *)
C16_SingleUse ==
    [][/\ \A r \in Requests :
            /\ (rq[r].pc = "idle" /\ rq'[r].pc # "idle"
                    /\ rq[r].filename \notin DOMAIN temp_files) =>
                  /\ rq'[r].pc = "failed"
                  /\ rq'[r].error =
                        "Enhanced processing error: File not found. Please upload again."
            /\ Fails(r) => UNCHANGED <<temp_files, processed_files>>
            /\ Succeeds(r) =>
                  /\ rq[r].filename \notin DOMAIN temp_files'
                  /\ \A f \in DOMAIN temp_files \ {rq[r].filename} :
                        f \in DOMAIN temp_files'
                  /\ Keeps(processed_files, processed_files')
                  /\ Cardinality(DOMAIN processed_files') =
                        Cardinality(DOMAIN processed_files) + 1
                  /\ \E id \in DOMAIN processed_files' \ DOMAIN processed_files :
                        processed_files'[id] = df'[r]
       /\ \A f \in DOMAIN temp_files \ DOMAIN temp_files' :
            \E r \in Requests : Succeeds(r) /\ rq[r].filename = f
       /\ processed_files' # processed_files =>
            \E r \in Requests : Succeeds(r)]_vars

(* One request was served and consumed the upload, the other one named the *)
(* same upload and failed with file not found.                             *)
C16_Witness ==
    \E r \in Requests, q \in Requests :
        /\ rq[r].pc = "done"
        /\ rq[q].pc = "failed"
        /\ rq[q].filename = rq[r].filename
        /\ rq[q].error =
              "Enhanced processing error: File not found. Please upload again."
        /\ Cardinality(DOMAIN processed_files) = 1

(* C17: get_processed_file raises not found for every id that no           *)
(* successful process_excel produced, returns exactly the bytes stored for *)
(* a produced id, and never modifies processed_files: a result is never    *)
(* removed or changed, so it can be downloaded any number of times.        *)
C17_DownloadLookup ==
    [][/\ dl' # dl =>
            /\ UNCHANGED <<temp_files, processed_files>>
            /\ IF dl'.file_id \in DOMAIN processed_files
               THEN dl'.kind = "bytes"
                    /\ dl'.bytes = processed_files[dl'.file_id]
               ELSE dl'.kind = "error"
                    /\ dl'.text = "File not found or expired"
       /\ Keeps(processed_files, processed_files')
       /\ \A id \in DOMAIN processed_files' \ DOMAIN processed_files :
            \E r \in Requests : Succeeds(r) /\ processed_files'[id] = df'[r]]_vars

(* The result of a request was downloaded, with a row written in it. *)
C17_Witness ==
    /\ dl.kind = "bytes"
    /\ dl.file_id \in DOMAIN processed_files
    /\ dl.bytes = processed_files[dl.file_id]
    /\ \E i \in DOMAIN dl.bytes : dl.bytes[i][<<"RESPONSE">>] # <<>>

(* C18: upload_file fails when the content exceeds 100 MB, when the file   *)
(* name does not end in .xlsx or .xls, or when the bytes are no workbook,  *)
(* and then leaves both stores unchanged; a successful upload adds exactly *)
(* one entry to temp_files, under the identifier it returns.               *)
C18_UploadAddsOneEntry ==
    [][up' # up =>
          /\ processed_files' = processed_files
          /\ IF up'.kind = "error"
             THEN temp_files' = temp_files
             ELSE /\ up'.filename \in DOMAIN temp_files'
                  /\ Keeps(temp_files, temp_files')
                  /\ Cardinality(DOMAIN temp_files') =
                        Cardinality(DOMAIN temp_files) + 1]_vars

(* C19: a process request that names a column the workbook does not have   *)
(* is rejected: no row is processed and no result is stored.               *)
C19_UnknownColumnRejected ==
    \A r \in Requests :
        (\E i \in DOMAIN wb[r] : \E j \in DOMAIN wb[r][i] :
              wb[r][i][j].kind = "absent")
        => /\ rq[r].pc = "failed"
           /\ \A i \in DOMAIN hist[r] : hist[r][i].launched = 0
           /\ processed_files = <<>>

(***************************************************************************)
(* Properties of the parser loop, checked under SpecParse.                 *)
(***************************************************************************)

(* The lines read so far: all of them once the text has ended. *)
LinesRead == IF stage = "scan" THEN pos ELSE Len(text)

(* Line i opens a section: it is a label line and no EXPLANATION line. *)
LabelAt(i) ==
    text[i] # <<>> /\ ~IsExplanationLine(text[i]) /\ IsLabelLine(text[i])

(* Line i matches the label pattern, an EXPLANATION line included. *)
PatternAt(i) == text[i] # <<>> /\ IsLabelLine(text[i])

(* The label lines of column c among the first n lines whose section is   *)
(* over: another label line follows, or the text has ended.                *)
ClosedSections(c, n) ==
    {i \in 1..n :
        /\ LabelAt(i)
        /\ MapLabel(RawCol(text[i]), out_cols) = c
        /\ (stage # "scan" \/ \E j \in (i + 1)..n : LabelAt(j))}

Latest(S) == CHOOSE i \in S : \A j \in S : j <= i

(* The first line after i, within the first n, that satisfies ends; n + 1  *)
(* when there is none.                                                     *)
SectionEnd(i, n, ends) ==
    IF \E j \in (i + 1)..n : j \in ends
    THEN CHOOSE j \in (i + 1)..n :
            j \in ends /\ \A k \in (i + 1)..(j - 1) : k \notin ends
    ELSE n + 1

(* The value on the label line i followed by the lines of body that come  *)
(* before last, in order.                                                  *)
RECURSIVE Pieces(_, _, _)
Pieces(from, last, body) ==
    IF from >= last THEN <<>>
    ELSE IF from \in body THEN <<text[from]>> \o Pieces(from + 1, last, body)
    ELSE Pieces(from + 1, last, body)

SectionPieces(i, last, body) ==
    <<LabelValue(text[i])>> \o Pieces(i + 1, last, body)

NonBlank == {j \in 1..Len(text) : text[j] # <<>>}

(* The section of the code: it runs to the next label line that is no      *)
(* EXPLANATION line and holds the lines that are neither blank nor         *)
(* EXPLANATION lines.                                                      *)
CodeSection(i, n) ==
    SectionPieces(i, SectionEnd(i, n, {j \in 1..n : LabelAt(j)}),
                  {j \in NonBlank : ~IsExplanationLine(text[j])})

(* The section as worded, an EXPLANATION line taken for a label line: it   *)
(* runs to the next line of the label pattern.                             *)
WordedSectionEndingAtExplanation(i, n) ==
    SectionPieces(i, SectionEnd(i, n, {j \in 1..n : PatternAt(j)}), NonBlank)

(* The section as worded, an EXPLANATION line taken for a non-label line:  *)
(* it is one of the lines of the section.                                  *)
WordedSectionHoldingExplanation(i, n) ==
    SectionPieces(i, SectionEnd(i, n, {j \in 1..n : LabelAt(j)}), NonBlank)

(* C21 as worded: the value of a mapped column is the newline-join of the  *)
(* value on its (last) label line and of all the non-blank non-label lines *)
(* up to the next label line or the end of the text, whichever way the     *)
(* EXPLANATION line is counted; the strip of the joined value is granted.  *)
C21_SectionIsJoin ==
    stage \in {"scan", "fill"} =>
        \A c \in Range(out_cols) :
            LET S == ClosedSections(c, LinesRead)
            IN  S # {} =>
                    \/ pst.results[c] = Strip(JoinNL(
                         WordedSectionEndingAtExplanation(Latest(S),
                                                          LinesRead)))
                    \/ pst.results[c] = Strip(JoinNL(
                         WordedSectionHoldingExplanation(Latest(S),
                                                         LinesRead)))

(* C21, amended: while the text is read and when it has ended, a column    *)
(* holds the stripped newline-join of the value on its last label line     *)
(* whose section is over and of the lines after it that are neither blank  *)
(* nor EXPLANATION lines, up to the next label line or the end of the      *)
(* text; a column without such a section is empty; and the open buffer     *)
(* holds the pieces of the section that is still open.                     *)
C21_SectionIsStrippedJoinWithoutExplanation ==
    stage \in {"scan", "fill"} =>
        /\ \A c \in Range(out_cols) :
              LET S == ClosedSections(c, LinesRead)
              IN  pst.results[c] =
                    IF S = {} THEN <<>>
                    ELSE Strip(JoinNL(CodeSection(Latest(S), LinesRead)))
        /\ stage = "scan" /\ pst.current_col # None =>
              LET open == {i \in 1..pos :
                              /\ LabelAt(i)
                              /\ \A j \in (i + 1)..pos : ~LabelAt(j)}
              IN  /\ open # {}
                  /\ MapLabel(RawCol(text[Latest(open)]), out_cols) =
                        pst.current_col
                  /\ pst.buffer = CodeSection(Latest(open), pos)

(* A column holds a value of two lines that came around an EXPLANATION     *)
(* line, and another column was flushed when its label line came.          *)
C21_Witness ==
    /\ stage = "fill"
    /\ \E c \in Range(out_cols) :
          /\ \E i \in 1..Len(pst.results[c]) : pst.results[c][i] = NL
          /\ \E i \in ClosedSections(c, Len(text)) :
                \E j \in (i + 1)..Len(text) : IsExplanationLine(text[j])
                    /\ \E k \in (j + 1)..Len(text) :
                          text[k] # <<>> /\ ~PatternAt(k)

(* The line begins with "EXPLANATION:" in some case. *)
BeginsWithExplanation(line) ==
    /\ Len(line) >= 2
    /\ line[1] \in {"EXPLANATION", "Explanation", "explanation"}
    /\ line[2] = COLON

(* C22: reading a line that begins with "EXPLANATION:" in any case changes *)
(* the explanation field only, to the text after the colon: the columns,   *)
(* the open section and its buffer stay as they were; reading a blank line *)
(* changes nothing of the parser's state.                                  *)
C22_ExplanationSideChannel ==
    [][stage = "scan" /\ pos' = pos + 1 =>
          LET line == text[pos + 1]
          IN  /\ line = <<>> => pst' = pst
              /\ BeginsWithExplanation(line) =>
                    /\ pst'.explanation = SubSeq(line, 3, Len(line))
                    /\ pst'.results = pst.results
                    /\ pst'.current_col = pst.current_col
                    /\ pst'.buffer = pst.buffer]_vars

(* An EXPLANATION line in mixed case has been read while a section was     *)
(* open, after a blank line.                                               *)
C22_Witness ==
    /\ stage = "scan"
    /\ pos >= 3
    /\ text[pos - 1] = <<>>
    /\ BeginsWithExplanation(text[pos])
    /\ text[pos][1] # "EXPLANATION"
    /\ pst.current_col # None
    /\ pst.buffer # <<>>
    /\ pst.explanation = SubSeq(text[pos], 3, Len(text[pos]))

(* Line i is a label line whose label is no column's: the synonym table    *)
(* gives no configured column, and no configured column shares a keyword   *)
(* cluster with the label.                                                 *)
Unmappable(i) ==
    /\ LabelAt(i)
    /\ LET raw_col == UpperSeq(SubSeq(text[i], 1, FirstColon(text[i]) - 1))
       IN  /\ column_mapping(raw_col) \notin Range(out_cols)
           /\ \A c \in Range(out_cols) :
                 /\ ~(AnyKeyIn(ResponseKeys, raw_col)
                        /\ AnyKeyIn(ResponseKeys, c))
                 /\ ~(AnyKeyIn(RemarkKeys, raw_col)
                        /\ AnyKeyIn(RemarkKeys, c))

(* C23: reading a label line that maps to no configured column stores the  *)
(* open buffer in the column that was open, leaves every other column as   *)
(* it was and leaves no section open; while no section is open, a line     *)
(* that is no label line changes nothing, and neither does the end of the  *)
(* text.                                                                   *)
C23_UnmappableDropped ==
    [][stage = "scan" =>
          /\ pos' = pos + 1 /\ Unmappable(pos + 1) =>
                /\ pst'.current_col = None
                /\ \A c \in Range(out_cols) :
                      pst'.results[c] =
                         IF c = pst.current_col
                         THEN Strip(JoinNL(pst.buffer))
                         ELSE pst.results[c]
          /\ pos' = pos + 1 /\ pst.current_col = None /\ ~PatternAt(pos + 1)
                => pst'.results = pst.results /\ pst'.current_col = None
          /\ stage' = "fill" /\ pst.current_col = None =>
                pst'.results = pst.results]_vars

(* The text has ended: a response was parsed, then came the heading of a   *)
(* citation block and a link under it; the response column holds its own   *)
(* value and no column holds the link.                                     *)
C23_Witness ==
    /\ stage = "fill"
    /\ Len(text) = 3
    /\ LabelAt(1) /\ ~Unmappable(1)
    /\ Unmappable(2)
    /\ text[3] # <<>> /\ ~PatternAt(3)
    /\ \E c \in Range(out_cols) : pst.results[c] = LabelValue(text[1])
    /\ \A c \in Range(out_cols) :
          \A i \in 1..Len(pst.results[c]) : pst.results[c][i] # "https"

(* C24: once the fallback fill has run, and when the call returns, no      *)
(* configured output column is empty; right after the fill, a column that  *)
(* parsing left empty holds "Not found" when it is a response-type column  *)
(* and the generic sentence when it is a remark-type column.               *)
C24_NoColumnEmpty ==
    /\ stage \in {"format", "done"} =>
          \A c \in Range(out_cols) : pst.results[c] # <<>>
    /\ stage = "format" =>
          \A c \in Range(out_cols) :
              ClosedSections(c, Len(text)) = {} =>
                  /\ AnyKeyIn(ResponseKeys, c) =>
                        pst.results[c] = <<"Not", "found">>
                  /\ ~AnyKeyIn(ResponseKeys, c) /\ AnyKeyIn(RemarkKeys, c) =>
                        pst.results[c] = GenericUnknown

(***************************************************************************)
(* Properties of the search cache, checked under SpecSearch.               *)
(***************************************************************************)

(* C25: a key that is in search_cache stays in it with the value it has:   *)
(* no step of any exa_search call, interleaved with others or not,         *)
(* removes the key or replaces its value.                                  *)
C25_EntriesImmutable ==
    [][\A k \in DOMAIN search_cache :
          k \in DOMAIN search_cache' /\ search_cache'[k] = search_cache[k]]_vars

(* C26: the result a call of exa_search returned holds at most 5 source    *)
(* URLs, whatever the shape of the tool's reply.                           *)
C26_AtMostFiveSources ==
    \A c \in Callers :
        call[c].pc = "returned" => Len(call[c].result.sources) <= 5

(* Call d has run the search itself and it ended in a failure or degraded  *)
(* outcome: the tool was not there, its call failed, it raised, or the     *)
(* reply was empty.                                                        *)
EndedInFailure(d) ==
    /\ call[d].pc = "returned"
    /\ call[d].reply.kind \in {"tool_missing", "mcp_error", "exception",
                               "empty"}

(* C29: a search that ends in a failure or degraded outcome stores that    *)
(* outcome under the key of its query, and every call of the same          *)
(* normalized query that starts later returns that outcome, as a cache     *)
(* hit, without taking a permit.                                           *)
C29_FailureOutcomeServedLater ==
    [][\A c \in Callers, d \in Callers :
          /\ (/\ call[d].pc = "tool_call"
              /\ EndedInFailure(d)')
             => /\ FoldQuery(Trimmed(call[d].query)) \in DOMAIN search_cache'
                /\ search_cache'[FoldQuery(Trimmed(call[d].query))] =
                      call'[d].result
                /\ call'[d].result.evidence_strength \in {"Error", "None"}
          /\ (/\ c # d
              /\ EndedInFailure(d)
              /\ FoldQuery(Trimmed(call[c].query))
                    = FoldQuery(Trimmed(call[d].query))
              /\ Starts(c))
             => /\ call'[c].pc = "returned"
                /\ call'[c].reply = CacheHit
                /\ call'[c].result = call[d].result
                /\ UNCHANGED <<search_cache, sem_value, sem_waiters>>]_vars

(***************************************************************************)
(* The orchestrator and rows whose task raised, checked under Spec.        *)
(***************************************************************************)

(* The output cells of a row as they are once the workbook is loaded and   *)
(* the missing output columns are added.                                   *)
Untouched(r, i) ==
    /\ hist[r][i].written = <<>>
    /\ \A c \in Range(OutputCols) : df[r][i][c] = <<>>

(* C27: nothing is ever written into a row whose task raised; the other    *)
(* rows of its chunk are written when the chunk is collected, the chunks   *)
(* after it are launched and collected, and process_excel does not fail:   *)
(* when it is done every other row holds the result of its own task.       *)
C27_RaisedRowSkipped ==
    \A r \in Requests :
        /\ rq[r].pc # "failed"
        /\ \A i \in Rows(r) :
              /\ ExtractionRaises(wb[r][i + 1]) => Untouched(r, i)
              /\ (/\ ~ExtractionRaises(wb[r][i + 1])
                  /\ task[r][i].pc = "collected")
                 => /\ hist[r][i].written = <<i>>
                    /\ ~Untouched(r, i)
              /\ (i < rq[r].batch_start \/ rq[r].pc = "done")
                    => task[r][i].pc = "collected"
              /\ (rq[r].pc = "pause" /\ i < rq[r].batch_start + BATCH_SIZE)
                    => task[r][i].pc = "collected"

(* The first request is done over two chunks: the task of its first row    *)
(* raised and the row is as it was loaded, the other row of that chunk and *)
(* the row of the next chunk hold answers, and the result is stored.       *)
C27_Witness ==
    /\ rq[1].pc = "done"
    /\ total_rows(1) > BATCH_SIZE
    /\ ExtractionRaises(wb[1][1])
    /\ Untouched(1, 0)
    /\ \A i \in Rows(1) \ {0} :
          hist[1][i].written = <<i>> /\ df[1][i][<<"RESPONSE">>] = <<"Yes">>
    /\ \E id \in DOMAIN processed_files : processed_files[id] = df[1]

(***************************************************************************)
(* Requests interleaved on one upload, checked under SpecStore.            *)
(***************************************************************************)

(* C28: an upload is consumed once: of the requests that run interleaved   *)
(* on one uploaded id at most one completes and stores a result, so a      *)
(* request never completes after another request has consumed its upload.  *)
C28_ConsumedOnce ==
    [][\A r \in Requests :
          Succeeds(r) => rq[r].filename \in DOMAIN temp_files]_vars

(***************************************************************************)
(* Permits and termination, checked under SpecFair.                        *)
(***************************************************************************)

(* Every chunk of request r has been gathered and collected. *)
EveryChunkProcessed(r) ==
    /\ rq[r].pc = "done"
    /\ \A i \in Rows(r) : task[r][i].pc = "collected"

(* C30: at every moment the permits taken from the semaphore are as many   *)
(* as the searches inside the guarded section, and only tasks that wait    *)
(* for a permit are queued on it; and when every step that can be taken is *)
(* taken in the end, every request ends with every chunk processed, every  *)
(* permit back and no task waiting.                                        *)
C30_NoLeakAndTermination ==
    /\ [](/\ MAX_CONCURRENT_REQUESTS - sem_value = Cardinality(InSearch)
          /\ \A n \in DOMAIN sem_waiters :
                task[sem_waiters[n][1]][sem_waiters[n][2]].pc = "sem_wait")
    /\ <>[](/\ \A r \in Requests : EveryChunkProcessed(r)
            /\ sem_value = MAX_CONCURRENT_REQUESTS
            /\ sem_waiters = <<>>)

(* Both requests are done after a search raised while another task waited  *)
(* for a permit: the tool session of one row ended in the Error result,    *)
(* every row is collected and every permit is back.                        *)
C30_Witness ==
    /\ \A r \in Requests : EveryChunkProcessed(r)
    /\ env.search_faults = 0
    /\ \E k \in DOMAIN search_cache :
          search_cache[k].evidence_strength = "Error"
    /\ sem_value = MAX_CONCURRENT_REQUESTS
    /\ sem_waiters = <<>>

====
